---- MODULE Spec2Model ----
(***************************************************************************)
(* Authentication / token lifecycle of blog-api: LoginUser, RefreshToken   *)
(* and ValidateToken use cases over the TokenService (jsonwebtoken) and    *)
(* the MongooseUserRepository.  Each use case is an async function; every  *)
(* action below is one run-to-completion segment of it, from the           *)
(* resolution of one awaited call up to the next awaited call.             *)
(***************************************************************************)
EXTENDS Integers, Sequences, FiniteSets, TLC

\* ------------------------------------------------------------------ bounds
\* Calls (use cases, requests, repository calls) started in one behaviour.
MaxFlows == 3

\* Pieces (scheme words, spaces, token strings) in an Authorization header.
MaxHeaderLen == 3

\* Two requests can be in flight at once.
Procs == {1, 2}

\* ------------------------------------------------------- program constants
\* LoginUser.ts:54 / RefreshToken.ts:63   7 * 24 * 60 * 60 * 1000
SevenDaysMs == 7 * 24 * 60 * 60 * 1000
\* config.auth.accessTokenExpiry default '15m', in seconds
AccessTokenExpiry == 15 * 60
\* config.auth.refreshTokenExpiry: default '7d'; AUTH_REFRESH_TOKEN_EXPIRY may
\* configure another span (here '30d'), in seconds
DefaultRefreshTokenExpiry == 7 * 24 * 60 * 60
RefreshTokenExpiryChoices == {DefaultRefreshTokenExpiry, 30 * 24 * 60 * 60}

\* The instants (ms) at which steps are taken: a start, one millisecond and one
\* second later, and exactly and just over seven days later.
ClockInstants == {0, 1, 1000, SevenDaysMs, SevenDaysMs + 1}

\* ------------------------------------------------------------ error values
ErrCredentialsRequired == "Email and password are required"
ErrInvalidEmailFormat == "Invalid email format"
ErrInvalidCredentialsNoUser == "Invalid email or password"
\* Variant: the message tells that the password was the wrong part.
ErrInvalidCredentialsBadPassword_Specific == "Invalid password"
ErrInvalidCredentialsBadPassword == "Invalid email or password"
ErrRefreshTokenRequired == "Refresh token is required"
ErrInvalidRefreshVerify == "Invalid or expired refresh token"
ErrInvalidRefreshStored == "Invalid or expired refresh token"
ErrUserNotFound == "User not found"
ErrAddFailed == "Failed to add refresh token"
ErrRemoveFailed == "Failed to remove refresh token"
ErrCleanFailed == "Failed to clean expired tokens"

\* ------------------------------------------------------------------ emails
\* An e-mail address is a sequence of characters.
Chars(s) == {s[i] : i \in 1..Len(s)}
IsSpaceOrAt(c) == c \in {" ", "@"}

\* /^[^\s@]+@[^\s@]+\.[^\s@]+$/ : some "@" at i and some "." at j > i + 1 with
\* non-empty runs free of whitespace and "@" before i, between i and j and
\* after j.
\* Variant: the pattern without its ".tld" part, /^[^\s@]+@[^\s@]+$/.
IsValidEmail_NoTld(email) ==
    \E i \in 1..Len(email) :
        /\ email[i] = "@"
        /\ 1 < i /\ i < Len(email)
        /\ \A k \in 1..Len(email) : (k # i) => ~IsSpaceOrAt(email[k])

IsValidEmail(email) ==
    \E i \in 1..Len(email) : \E j \in 1..Len(email) :
        /\ email[i] = "@"
        /\ email[j] = "."
        /\ 1 < i /\ i + 1 < j /\ j < Len(email)
        /\ \A k \in 1..Len(email) : (k # i) => ~IsSpaceOrAt(email[k])

ToLowerChar(c) == CASE c = "U" -> "u"
                    [] c = "X" -> "x"
                    [] c = "C" -> "c"
                    [] OTHER -> c
ToLowerCase(email) == [k \in 1..Len(email) |-> ToLowerChar(email[k])]

EmailU1 == <<"u", "@", "x", ".", "c">>
EmailU1Upper == <<"U", "@", "X", ".", "C">>
EmailU2 == <<"a", "@", "x", ".", "c">>
EmailNobody == <<"n", "@", "x", ".", "c">>
EmailEmpty == <<>>
BadShapeEmails == { <<"u", "x">>,                       \* no "@"
                    <<"@", "x", ".", "c">>,             \* @domain.com
                    <<"u", "@", "x">>,                  \* user@domain
                    <<"u", "@", "x", ".">>,             \* user@domain.
                    <<"u", " ", "u", "@", "x", ".", "c">> } \* user space@domain.com
\* The login requests tried: every e-mail with the right password, and the
\* registered address also with a wrong and with an empty password.
LoginRequests ==
    {[email |-> e, password |-> "correct"] :
        e \in {EmailU1, EmailU1Upper, EmailNobody, EmailEmpty}
               \cup BadShapeEmails}
    \cup {[email |-> EmailU1, password |-> pw] : pw \in {"", "wrong"}}

\* ------------------------------------------------------------------- users
UserIds == {"u1", "u2"}
NoUser == [id |-> "none"]

\* bcrypt: a hash carries its salt and is verified by recomputation, so a
\* hash is the pair of the plaintext it was made from and the salt.
PasswordHashOf(plain, salt) == [plain |-> plain, salt |-> salt]
PasswordVerify(plain, hashed) == hashed.plain = plain

\* Strings stored as passwordHash that bcrypt.hash did not produce: one
\* shorter than 60 characters ('not-a-valid-hash'), and 60-character strings that do
\* not begin with "$2" or carry an unknown revision after "$2".
MalformedHash(why) == [malformed |-> why]
MalformedHashes == {MalformedHash(w) : w \in {"length", "version", "revision"}}

\* bcryptjs compare(s, hash): a promise resolving to a boolean (ok) or
\* rejecting with an Error (its message in error).
BcryptCompare(s, hash) ==
    IF "malformed" \notin DOMAIN hash
    THEN [ok |-> TRUE, value |-> PasswordVerify(s, hash), error |-> ""]
    ELSE CASE hash.malformed = "length" ->
                 [ok |-> TRUE, value |-> FALSE, error |-> ""]
           [] hash.malformed = "version" ->
                 [ok |-> FALSE, value |-> FALSE,
                  error |-> "Invalid salt version: xx"]
           [] OTHER ->
                 [ok |-> FALSE, value |-> FALSE,
                  error |-> "Invalid salt revision: z$"]

\* PasswordService.verify: try { return await bcrypt.compare(...) }
\* catch (error) { throw new Error(`Failed to verify password: ...`) }
PasswordServiceVerify(plainPassword, hashedPassword) ==
    LET r == BcryptCompare(plainPassword, hashedPassword) IN
    IF r.ok THEN r
    ELSE [r EXCEPT !.error = "Failed to verify password: " \o r.error]

InitUsers ==
    [u \in UserIds |->
        IF u = "u1"
        THEN [id |-> "u1", email |-> EmailU1,
              passwordHash |-> PasswordHashOf("correct", 1),
              permissions |-> <<"read:posts">>, refreshTokens |-> <<>>]
        ELSE [id |-> "u2", email |-> EmailU2,
              passwordHash |-> PasswordHashOf("correct", 2),
              permissions |-> <<"read:posts", "create:posts", "admin">>,
              refreshTokens |-> <<>>]]

\* ----------------------------------------------------------------- tokens
\* A signed JWT is determined by its payload (HS256 over a fixed secret and
\* header is deterministic), so the token string is modelled by the claims
\* it encodes.  iat and exp are in seconds.
NowSeconds(t) == t \div 1000

\* Variant: the payload is signed without the user's permissions.
SignToken_NoPermissions(user, type, expiresIn, t) ==
    [kind |-> "jwt", userId |-> user.id, email |-> user.email,
     permissions |-> <<>>, type |-> type,
     iat |-> NowSeconds(t), exp |-> NowSeconds(t) + expiresIn]

SignToken(user, type, expiresIn, t) ==
    [kind |-> "jwt", userId |-> user.id, email |-> user.email,
     permissions |-> user.permissions, type |-> type,
     iat |-> NowSeconds(t), exp |-> NowSeconds(t) + expiresIn]

GenerateAccessToken(user, t) == SignToken(user, "access", AccessTokenExpiry, t)
\* config.auth.adminTokenExpiry ('1h'), seconds
AdminTokenExpiry == 60 * 60
ErrNotAdmin == "User does not have admin permissions"
\* TokenService.generateAdminToken: the token, or the Error it throws for a
\* user whose permissions do not include 'admin'.
GenerateAdminToken(user, t) ==
    IF \E i \in 1..Len(user.permissions) : user.permissions[i] = "admin"
    THEN [ok |-> TRUE, token |-> SignToken(user, "admin", AdminTokenExpiry, t),
          error |-> ""]
    ELSE [ok |-> FALSE, token |-> [kind |-> "none"], error |-> ErrNotAdmin]
GenerateRefreshToken(user, expiresIn, t) == SignToken(user, "refresh", expiresIn, t)

\* Strings that are not tokens signed by this service.
EmptyToken == [kind |-> ""]
GarbageKinds == {"malformed", "badsig", "notbefore", "liberror", "nonerror"}
GarbageTokens == {[kind |-> k] : k \in GarbageKinds}
NoToken == [kind |-> "none"]
NoPayload == [type |-> "none"]

\* jwt.verify: the exception class it raises, or "ok".
JwtVerify(token, t) ==
    CASE token.kind = "jwt" ->
            IF NowSeconds(t) >= token.exp THEN "TokenExpiredError" ELSE "ok"
      [] token.kind = "notbefore" -> "NotBeforeError"
      [] token.kind \in {"malformed", "badsig"} -> "JsonWebTokenError"
      [] token.kind = "liberror" -> "Error"
      [] OTHER -> "NonError"

PayloadOf(token) ==
    [userId |-> token.userId, email |-> token.email,
     permissions |-> token.permissions, type |-> token.type,
     iat |-> token.iat, exp |-> token.exp]

\* The message of the error jwt.verify raises on a string that is no token
\* of this service.
JwtMessage(token) ==
    CASE token.kind = "malformed" -> "jwt malformed"
      [] token.kind = "badsig" -> "invalid signature"
      [] token.kind = "liberror" -> "Unknown custom error"
      [] OTHER -> ""

\* TokenService.verifyToken: the payload, or the Error it throws.
VerifyToken(token, t) ==
    LET r == JwtVerify(token, t) IN
    CASE r = "ok" -> [ok |-> TRUE, payload |-> PayloadOf(token), error |-> ""]
      [] r = "TokenExpiredError" ->
            [ok |-> FALSE, payload |-> NoPayload, error |-> "Token has expired"]
      [] r = "NotBeforeError" ->
            [ok |-> FALSE, payload |-> NoPayload, error |-> "Token not active yet"]
      [] r = "JsonWebTokenError" ->
            [ok |-> FALSE, payload |-> NoPayload,
             error |-> "Invalid token: " \o JwtMessage(token)]
      [] r = "Error" ->
            [ok |-> FALSE, payload |-> NoPayload,
             error |-> "Token verification failed: " \o JwtMessage(token)]
      [] OTHER ->
            [ok |-> FALSE, payload |-> NoPayload,
             error |-> "Token verification failed: Unknown error"]

\* ------------------------------------------------------------- user store
\* MongooseUserRepository over the users collection.
FindById(us, id) == IF id \in DOMAIN us THEN us[id] ELSE NoUser

FindByEmail(us, email) ==
    IF \E u \in DOMAIN us : us[u].email = ToLowerCase(email)
    THEN us[CHOOSE u \in DOMAIN us : us[u].email = ToLowerCase(email)]
    ELSE NoUser

\* $push refreshTokens
AddRefreshToken(rts, tokenData) == Append(rts, tokenData)
\* $pull refreshTokens {token}
RemoveRefreshToken(rts, token) == SelectSeq(rts, LAMBDA e : e.token # token)
\* Variant: the comparison is turned round, {expiresAt: {$gt: now}}.
CleanExpiredTokens_Unexpired(rts, t) == SelectSeq(rts, LAMBDA e : ~(e.expiresAt > t))

\* $pull refreshTokens {expiresAt: {$lt: now}}
CleanExpiredTokens(rts, t) == SelectSeq(rts, LAMBDA e : ~(e.expiresAt < t))

\* Variant: the comparison with the presented string is left out.
HasValidRefreshToken_AnyToken(rts, token, t) ==
    \E i \in 1..Len(rts) : rts[i].expiresAt > t

\* Variant: an entry expiring exactly now still counts.
HasValidRefreshToken_Inclusive(rts, token, t) ==
    \E i \in 1..Len(rts) : rts[i].token = token /\ rts[i].expiresAt >= t

\* user.refreshTokens.some(d => d.token === refreshToken && d.expiresAt > new Date())
HasValidRefreshToken(rts, token, t) ==
    \E i \in 1..Len(rts) : rts[i].token = token /\ rts[i].expiresAt > t

\* Variant: the span taken in seconds, 7 * 24 * 60 * 60.
RefreshTokenExpiryDate_Seconds(t) == t + 7 * 24 * 60 * 60

\* new Date(Date.now() + 7 * 24 * 60 * 60 * 1000)
RefreshTokenExpiryDate(t) == t + SevenDaysMs

TokenData(token, t) ==
    [token |-> token, expiresAt |-> RefreshTokenExpiryDate(t), createdAt |-> t]
NoTokenData == [token |-> NoToken, expiresAt |-> 0, createdAt |-> 0]

\* ------------------------------------------------------------------ state
VARIABLES
    now,                \* wall clock, ms
    refreshTokenExpiry, \* config.auth.refreshTokenExpiry, seconds
    users,              \* the users collection
    proc,               \* per in-flight use-case invocation: its frame
    started,            \* number of calls started so far
    issued,             \* tokens handed to callers so far
    rotated             \* refresh tokens some successful refresh presented

vars == <<now, refreshTokenExpiry, users, proc, started, issued, rotated>>

NoRequest == [email |-> <<>>, password |-> "", token |-> NoToken,
              requiredPermission |-> "", requiredTokenType |-> ""]
NoResult == [status |-> "pending"]
UserView == [id |-> "none", email |-> <<>>, permissions |-> <<>>]

\* Options and request of the auth middleware; what it left on the request
\* and what was answered (status 0: nothing answered yet).
NoGuard == [optional |-> FALSE, header |-> <<>>, handler |-> "none",
            body |-> NoToken]
NoResponse == [status |-> 0, next |-> FALSE, error |-> "", message |-> "",
               user |-> UserView, token |-> NoPayload]

\* Arguments of a call of the repository's create, update or delete.
NoArgs == [id |-> "none", data |-> <<>>, hooked |-> <<>>]

IdleFrame ==
    [flow |-> "none", pc |-> "idle", req |-> NoRequest,
     guard |-> NoGuard, response |-> NoResponse, raised |-> "",
     user |-> UserView, passwordHash |-> PasswordHashOf("", 0),
     payload |-> NoPayload,
     cleanAt |-> 0, accessToken |-> NoToken, refreshToken |-> NoToken,
     tokenData |-> NoTokenData, calls |-> <<>>, failedAt |-> "", fault |-> "",
     reuse |-> FALSE, args |-> NoArgs, result |-> NoResult]

Init ==
    /\ now = 0
    /\ refreshTokenExpiry \in RefreshTokenExpiryChoices
    /\ users = InitUsers
    /\ proc = [p \in Procs |-> IdleFrame]
    /\ started = 0
    /\ issued = {}
    /\ rotated = {}

\* The service as deployed with the default configuration.
InitDefault == Init /\ refreshTokenExpiry = DefaultRefreshTokenExpiry

\* Variant: the flow throws an error of its own in place of the failure.
Throw_Wrapped(f, step, err) ==
    [f EXCEPT !.pc = "done", !.failedAt = step,
              !.result = [status |-> "error", error |-> "Login failed"]]

\* The frame of an invocation that throws err at step.
Throw(f, step, err) ==
    [f EXCEPT !.pc = "done", !.failedAt = step,
              !.result = [status |-> "error", error |-> err]]

Call(f, name) == [f EXCEPT !.calls = Append(@, name)]

\* The frame after the awaited store operation op: fault names the operation
\* if the database failed on it.
Awaited(f, op, dbFails) == [f EXCEPT !.fault = IF dbFails THEN op ELSE ""]

\* The middleware of the request awaits validateToken.execute, which has
\* settled; the middleware has not resumed, nothing is answered yet.
Settled(f) ==
    /\ f.flow \in {"guard", "logout"} /\ f.pc = "done"
    /\ "isValid" \in DOMAIN f.result
    /\ f.response = NoResponse

CanStart(p) ==
    /\ proc[p].pc \in {"idle", "done"} /\ ~Settled(proc[p])
    /\ started < MaxFlows

\* -------------------------------------------------------------- Login Flow
ViewOf(u) == [id |-> u.id, email |-> u.email, permissions |-> u.permissions]

\* AuthResponse
AuthResponse(f) ==
    [user |-> [id |-> f.user.id, email |-> f.user.email,
               permissions |-> f.user.permissions],
     accessToken |-> f.accessToken,
     refreshToken |-> f.refreshToken]

Return(f) ==
    [f EXCEPT !.pc = "done",
              !.result = [status |-> "ok", value |-> AuthResponse(f)]]

\* LoginUser.execute, input validation up to the call of findByEmail
LoginValidate(f) ==
    IF f.req.email = <<>> \/ f.req.password = ""
    THEN Throw(f, "input", ErrCredentialsRequired)
    ELSE IF ~IsValidEmail(f.req.email)
    THEN Throw(f, "input", ErrInvalidEmailFormat)
    ELSE [Call(f, "findByEmail") EXCEPT !.pc = "findByEmail"]

LoginStart(p, r) ==
    /\ CanStart(p)
    /\ proc' = [proc EXCEPT ![p] =
                  LoginValidate([IdleFrame EXCEPT
                     !.flow = "login",
                     !.req = [NoRequest EXCEPT !.email = r.email,
                                               !.password = r.password]])]
    /\ started' = started + 1
    /\ UNCHANGED <<now, refreshTokenExpiry, users, issued, rotated>>

\* Variant: a lookup the database failed on surfaces as a storage error, as
\* the failures of the other repository methods do.
LoginAfterFind_StorageError(f, user) ==
    IF f.fault = "findByEmail"
    THEN Throw(f, "findByEmail", "Failed to find user by email")
    ELSE IF user.id = "none"
    THEN Throw(f, "findByEmail", ErrInvalidCredentialsNoUser)
    ELSE [Call(f, "verify") EXCEPT !.pc = "verify", !.user = ViewOf(user),
                                   !.passwordHash = user.passwordHash]

\* findByEmail resolved with user (NoUser for null); up to passwordService.verify
LoginAfterFind(f, user) ==
    IF user.id = "none"
    THEN Throw(f, "findByEmail", ErrInvalidCredentialsNoUser)
    ELSE [Call(f, "verify") EXCEPT !.pc = "verify", !.user = ViewOf(user),
                                   !.passwordHash = user.passwordHash]

LoginFindByEmail(p) ==
    /\ proc[p].flow = "login" /\ proc[p].pc = "findByEmail"
    /\ \E dbFails \in BOOLEAN :
         proc' = [proc EXCEPT ![p] =
                    LoginAfterFind(Awaited(proc[p], "findByEmail", dbFails),
                       IF dbFails THEN NoUser
                       ELSE FindByEmail(users, proc[p].req.email))]
    /\ UNCHANGED <<now, refreshTokenExpiry, users, started, issued, rotated>>

\* passwordService.verify resolved; up to the call of cleanExpiredTokens
LoginAfterVerify(f, isValidPassword, t) ==
    IF ~isValidPassword
    THEN Throw(f, "verify", ErrInvalidCredentialsBadPassword)
    ELSE [Call(f, "cleanExpiredTokens") EXCEPT !.pc = "clean", !.cleanAt = t]

LoginVerify(p) ==
    /\ proc[p].flow = "login" /\ proc[p].pc = "verify"
    /\ LET r == PasswordServiceVerify(proc[p].req.password, proc[p].passwordHash)
       IN proc' = [proc EXCEPT ![p] =
                     IF r.ok THEN LoginAfterVerify(proc[p], r.value, now)
                     ELSE Throw([proc[p] EXCEPT !.fault = "verify",
                                                !.raised = r.error],
                                "verify", r.error)]
    /\ UNCHANGED <<now, refreshTokenExpiry, users, started, issued, rotated>>

\* Variant: the entry to store is made from the access token.
LoginIssue_StoreAccess(f, expiresIn, t) ==
    LET a == GenerateAccessToken(f.user, t)
        r == GenerateRefreshToken(f.user, expiresIn, t)
    IN [f EXCEPT !.pc = "add", !.accessToken = a, !.refreshToken = r,
                 !.tokenData = TokenData(a, t),
                 !.calls = @ \o <<"generateAccessToken", "generateRefreshToken",
                                  "addRefreshToken">>]

\* cleanExpiredTokens resolved; token generation up to the call of addRefreshToken
LoginIssue(f, expiresIn, t) ==
    LET a == GenerateAccessToken(f.user, t)
        r == GenerateRefreshToken(f.user, expiresIn, t)
    IN [f EXCEPT !.pc = "add", !.accessToken = a, !.refreshToken = r,
                 !.tokenData = TokenData(r, t),
                 !.calls = @ \o <<"generateAccessToken", "generateRefreshToken",
                                  "addRefreshToken">>]

\* Variant: a failed cleanup is swallowed and the tokens are issued anyway.
LoginAfterClean_Swallow(f, failed, expiresIn, t) == LoginIssue(f, expiresIn, t)

LoginAfterClean(f, failed, expiresIn, t) ==
    IF failed THEN Throw(f, "cleanExpiredTokens", ErrCleanFailed)
    ELSE LoginIssue(f, expiresIn, t)

LoginClean(p) ==
    /\ proc[p].flow = "login" /\ proc[p].pc = "clean"
    /\ \E dbFails \in BOOLEAN :
         /\ proc' = [proc EXCEPT ![p] =
                       LoginAfterClean(Awaited(proc[p], "cleanExpiredTokens", dbFails),
                                       dbFails, refreshTokenExpiry, now)]
         /\ users' = IF dbFails \/ proc[p].user.id \notin DOMAIN users THEN users
                     ELSE [users EXCEPT ![proc[p].user.id].refreshTokens =
                              CleanExpiredTokens(@, proc[p].cleanAt)]
    /\ UNCHANGED <<now, refreshTokenExpiry, started, issued, rotated>>

\* addRefreshToken resolved; the response
LoginAfterAdd(f, failed) ==
    IF failed THEN Throw(f, "addRefreshToken", ErrAddFailed) ELSE Return(f)

LoginAdd(p) ==
    /\ proc[p].flow = "login" /\ proc[p].pc = "add"
    /\ \E dbFails \in BOOLEAN :
         /\ proc' = [proc EXCEPT ![p] =
                       LoginAfterAdd(Awaited(proc[p], "addRefreshToken", dbFails), dbFails)]
         /\ users' = IF dbFails \/ proc[p].user.id \notin DOMAIN users THEN users
                     ELSE [users EXCEPT ![proc[p].user.id].refreshTokens =
                              AddRefreshToken(@, proc[p].tokenData)]
         /\ issued' = IF dbFails THEN issued
                      ELSE issued \cup {proc[p].accessToken, proc[p].refreshToken}
    /\ UNCHANGED <<now, refreshTokenExpiry, started, rotated>>

\* A call of PasswordService.verify on its own, up to the await of
\* bcrypt.compare: the arguments are kept in req.password and passwordHash.
PasswordVerifyStart(p, plainPassword, hashedPassword) ==
    /\ CanStart(p)
    /\ proc' = [proc EXCEPT ![p] =
                  [IdleFrame EXCEPT
                     !.flow = "verify", !.pc = "verify",
                     !.req = [NoRequest EXCEPT !.password = plainPassword],
                     !.passwordHash = hashedPassword,
                     !.calls = <<"compare">>]]
    /\ started' = started + 1
    /\ UNCHANGED <<now, refreshTokenExpiry, users, issued, rotated>>

\* bcrypt.compare settled: verify returns its boolean, or its catch throws
\* 'Failed to verify password: ...' for a comparison that rejected.
PasswordVerifyStep(p) ==
    /\ proc[p].flow = "verify" /\ proc[p].pc = "verify"
    /\ LET r == PasswordServiceVerify(proc[p].req.password, proc[p].passwordHash)
       IN proc' = [proc EXCEPT ![p] =
                     IF r.ok
                     THEN [proc[p] EXCEPT !.pc = "done",
                              !.result = [status |-> "ok", value |-> r.value]]
                     ELSE Throw(proc[p], "verify", r.error)]
    /\ UNCHANGED <<now, refreshTokenExpiry, users, started, issued, rotated>>

\* ------------------------------------------------------ Token Refresh Flow
\* Token strings a caller can present: those handed out, and foreign ones.
PresentableTokens == issued \cup GarbageTokens \cup {EmptyToken}

\* Variant: the reason the codec gave is passed on to the caller.
RefreshValidate_LeakReason(f, t) ==
    IF f.req.token = EmptyToken
    THEN Throw(f, "input", ErrRefreshTokenRequired)
    ELSE LET v == VerifyToken(f.req.token, t) IN
         IF ~v.ok
         THEN Throw(Call(f, "verifyToken"), "verifyToken", v.error)
         ELSE [f EXCEPT !.pc = "findById", !.payload = v.payload,
                        !.calls = @ \o <<"verifyToken", "findById">>]

\* RefreshToken.execute, input validation and verification up to findById
RefreshValidate(f, t) ==
    IF f.req.token = EmptyToken
    THEN Throw(f, "input", ErrRefreshTokenRequired)
    ELSE LET v == VerifyToken(f.req.token, t) IN
         IF ~v.ok
         THEN Throw(Call(f, "verifyToken"), "verifyToken", ErrInvalidRefreshVerify)
         ELSE [f EXCEPT !.pc = "findById", !.payload = v.payload,
                        !.calls = @ \o <<"verifyToken", "findById">>]

RefreshStart(p, token) ==
    /\ CanStart(p)
    /\ proc' = [proc EXCEPT ![p] =
                  RefreshValidate([IdleFrame EXCEPT
                     !.flow = "refresh",
                     !.req = [NoRequest EXCEPT !.token = token],
                     !.reuse = (token \in rotated)], now)]
    /\ started' = started + 1
    /\ UNCHANGED <<now, refreshTokenExpiry, users, issued, rotated>>

\* findById resolved with user; stored-token check up to cleanExpiredTokens
RefreshAfterFind(f, user, t) ==
    IF user.id = "none"
    THEN Throw(f, "findById", ErrUserNotFound)
    ELSE IF ~HasValidRefreshToken(user.refreshTokens, f.req.token, t)
    THEN Throw([f EXCEPT !.user = ViewOf(user)], "check", ErrInvalidRefreshStored)
    ELSE [Call(f, "cleanExpiredTokens") EXCEPT
             !.pc = "clean", !.user = ViewOf(user), !.cleanAt = t]

RefreshFindById(p) ==
    /\ proc[p].flow = "refresh" /\ proc[p].pc = "findById"
    /\ \E dbFails \in BOOLEAN :
         proc' = [proc EXCEPT ![p] =
                    RefreshAfterFind(Awaited(proc[p], "findById", dbFails),
                       IF dbFails THEN NoUser
                       ELSE FindById(users, proc[p].payload.userId), now)]
    /\ UNCHANGED <<now, refreshTokenExpiry, users, started, issued, rotated>>

\* Variant: the new tokens carry the claims of the token presented.
RefreshIssue_FromPayload(f, expiresIn, t) ==
    LET old == [f.user EXCEPT !.permissions = f.payload.permissions] IN
    [f EXCEPT !.pc = "remove",
              !.accessToken = GenerateAccessToken(old, t),
              !.refreshToken = GenerateRefreshToken(old, expiresIn, t),
              !.calls = @ \o <<"generateAccessToken", "generateRefreshToken",
                               "removeRefreshToken">>]

\* cleanExpiredTokens resolved; token generation up to removeRefreshToken
RefreshIssue(f, expiresIn, t) ==
    [f EXCEPT !.pc = "remove",
              !.accessToken = GenerateAccessToken(f.user, t),
              !.refreshToken = GenerateRefreshToken(f.user, expiresIn, t),
              !.calls = @ \o <<"generateAccessToken", "generateRefreshToken",
                               "removeRefreshToken">>]

RefreshAfterClean(f, failed, expiresIn, t) ==
    IF failed THEN Throw(f, "cleanExpiredTokens", ErrCleanFailed)
    ELSE RefreshIssue(f, expiresIn, t)

RefreshClean(p) ==
    /\ proc[p].flow = "refresh" /\ proc[p].pc = "clean"
    /\ \E dbFails \in BOOLEAN :
         /\ proc' = [proc EXCEPT ![p] =
                       RefreshAfterClean(Awaited(proc[p], "cleanExpiredTokens", dbFails),
                                         dbFails, refreshTokenExpiry, now)]
         /\ users' = IF dbFails \/ proc[p].user.id \notin DOMAIN users THEN users
                     ELSE [users EXCEPT ![proc[p].user.id].refreshTokens =
                              CleanExpiredTokens(@, proc[p].cleanAt)]
    /\ UNCHANGED <<now, refreshTokenExpiry, started, issued, rotated>>

\* Variant: a failed removal is swallowed and the new token is stored anyway.
RefreshAfterRemove_Swallow(f, failed, t) ==
    [Call(f, "addRefreshToken") EXCEPT
        !.pc = "add", !.tokenData = TokenData(f.refreshToken, t)]

\* removeRefreshToken resolved; expiry computation up to addRefreshToken
RefreshAfterRemove(f, failed, t) ==
    IF failed THEN Throw(f, "removeRefreshToken", ErrRemoveFailed)
    ELSE [Call(f, "addRefreshToken") EXCEPT
             !.pc = "add", !.tokenData = TokenData(f.refreshToken, t)]

\* Variant: the removal is conditional on the token still being stored and
\* rejects the flow otherwise.
RefreshRemove_Conditional(p) ==
    /\ proc[p].flow = "refresh" /\ proc[p].pc = "remove"
    /\ LET gone == \A i \in 1..Len(users[proc[p].user.id].refreshTokens) :
                      users[proc[p].user.id].refreshTokens[i].token # proc[p].req.token
       IN \E dbFails \in BOOLEAN :
            /\ proc' = [proc EXCEPT ![p] =
                  IF gone THEN Throw(proc[p], "removeRefreshToken", ErrInvalidRefreshStored)
                  ELSE RefreshAfterRemove(Awaited(proc[p], "removeRefreshToken", dbFails),
                                          dbFails, now)]
            /\ users' = IF dbFails \/ gone THEN users
                        ELSE [users EXCEPT ![proc[p].user.id].refreshTokens =
                                 RemoveRefreshToken(@, proc[p].req.token)]
    /\ UNCHANGED <<now, refreshTokenExpiry, started, issued, rotated>>

RefreshRemove(p) ==
    /\ proc[p].flow = "refresh" /\ proc[p].pc = "remove"
    /\ \E dbFails \in BOOLEAN :
         /\ proc' = [proc EXCEPT ![p] =
                       RefreshAfterRemove(Awaited(proc[p], "removeRefreshToken", dbFails),
                                          dbFails, now)]
         /\ users' = IF dbFails \/ proc[p].user.id \notin DOMAIN users THEN users
                     ELSE [users EXCEPT ![proc[p].user.id].refreshTokens =
                              RemoveRefreshToken(@, proc[p].req.token)]
    /\ UNCHANGED <<now, refreshTokenExpiry, started, issued, rotated>>

\* addRefreshToken resolved; the response
RefreshAfterAdd(f, failed) ==
    IF failed THEN Throw(f, "addRefreshToken", ErrAddFailed) ELSE Return(f)

RefreshAdd(p) ==
    /\ proc[p].flow = "refresh" /\ proc[p].pc = "add"
    /\ \E dbFails \in BOOLEAN :
         /\ proc' = [proc EXCEPT ![p] =
                       RefreshAfterAdd(Awaited(proc[p], "addRefreshToken", dbFails), dbFails)]
         /\ users' = IF dbFails \/ proc[p].user.id \notin DOMAIN users THEN users
                     ELSE [users EXCEPT ![proc[p].user.id].refreshTokens =
                              AddRefreshToken(@, proc[p].tokenData)]
         /\ issued' = IF dbFails THEN issued
                      ELSE issued \cup {proc[p].accessToken, proc[p].refreshToken}
         /\ rotated' = IF dbFails THEN rotated
                       ELSE rotated \cup {proc[p].req.token}
    /\ UNCHANGED <<now, refreshTokenExpiry, started>>

\* --------------------------------------------------- Token Validation Flow
ErrTokenRequired == "Token is required"
ErrInvalidToken == "Invalid or expired token"
ErrValidateUserNotFound == "User not found"
ErrRefreshNotStored == "Refresh token not found or expired"
ErrTokenTypeRequired(type) == <<"Token type", type, "required">>
ErrPermissionRequired(permission) == <<"Permission", permission, "required">>

Permissions == {"read:posts", "create:posts", "admin"}
TokenTypes == {"access", "admin", "refresh"}
\* requiredPermission / requiredTokenType as the route guards pass them
\* ("" for an option left out)
RequiredPermissions == {"", "create:posts"}
RequiredTokenTypes == {"", "access"}

Invalid(f, step, err) ==
    [f EXCEPT !.pc = "done", !.failedAt = step,
              !.result = [isValid |-> FALSE, error |-> err]]

\* payload.permissions.includes(requiredPermission)
HasPermission(payload, requiredPermission) ==
    \E i \in 1..Len(payload.permissions) : payload.permissions[i] = requiredPermission
\* Variant: an admin token also counts where an access token is required.
IsTokenType_AdminCounts(payload, tokenType) ==
    payload.type = tokenType \/ (tokenType = "access" /\ payload.type = "admin")

\* payload.type === tokenType
IsTokenType(payload, tokenType) == payload.type = tokenType

\* Variant: the required permission is checked before the required type.
ValidateChecks_PermissionFirst(f, t) ==
    IF f.req.token = EmptyToken
    THEN Invalid(f, "input", ErrTokenRequired)
    ELSE LET v == VerifyToken(f.req.token, t) IN
         IF ~v.ok
         THEN Invalid(Call(f, "verifyToken"), "verifyToken", ErrInvalidToken)
         ELSE IF f.req.requiredPermission # ""
                 /\ ~HasPermission(v.payload, f.req.requiredPermission)
         THEN Invalid(Call(f, "verifyToken"), "permission",
                      ErrPermissionRequired(f.req.requiredPermission))
         ELSE IF f.req.requiredTokenType # ""
                 /\ ~IsTokenType(v.payload, f.req.requiredTokenType)
         THEN Invalid(Call(f, "verifyToken"), "type",
                      ErrTokenTypeRequired(f.req.requiredTokenType))
         ELSE [f EXCEPT !.pc = "findById", !.payload = v.payload,
                        !.calls = @ \o <<"verifyToken", "findById">>]

\* ValidateToken.execute up to the call of findById
ValidateChecks(f, t) ==
    IF f.req.token = EmptyToken
    THEN Invalid(f, "input", ErrTokenRequired)
    ELSE LET v == VerifyToken(f.req.token, t) IN
         IF ~v.ok
         THEN Invalid(Call(f, "verifyToken"), "verifyToken", ErrInvalidToken)
         ELSE IF f.req.requiredTokenType # ""
                 /\ ~IsTokenType(v.payload, f.req.requiredTokenType)
         THEN Invalid(Call(f, "verifyToken"), "type",
                      ErrTokenTypeRequired(f.req.requiredTokenType))
         ELSE IF f.req.requiredPermission # ""
                 /\ ~HasPermission(v.payload, f.req.requiredPermission)
         THEN Invalid(Call(f, "verifyToken"), "permission",
                      ErrPermissionRequired(f.req.requiredPermission))
         ELSE [f EXCEPT !.pc = "findById", !.payload = v.payload,
                        !.calls = @ \o <<"verifyToken", "findById">>]

ValidateStart(p, token, perm, type) ==
    /\ CanStart(p)
    /\ proc' = [proc EXCEPT ![p] =
                  ValidateChecks([IdleFrame EXCEPT
                     !.flow = "validate",
                     !.req = [NoRequest EXCEPT !.token = token,
                                !.requiredPermission = perm,
                                !.requiredTokenType = type]], now)]
    /\ started' = started + 1
    /\ UNCHANGED <<now, refreshTokenExpiry, users, issued, rotated>>

\* Variant: the stored-token check is applied to tokens of every type.
ValidateAfterFind_AllTypes(f, user, t) ==
    IF user.id = "none"
    THEN Invalid(f, "findById", ErrValidateUserNotFound)
    ELSE IF ~HasValidRefreshToken(user.refreshTokens, f.req.token, t)
    THEN Invalid([f EXCEPT !.user = ViewOf(user)], "check", ErrRefreshNotStored)
    ELSE [f EXCEPT !.pc = "done", !.user = ViewOf(user),
                   !.result = [isValid |-> TRUE, payload |-> f.payload,
                               user |-> ViewOf(user)]]

\* Variant: the required permission is checked again on the user record.
ValidateAfterFind_LivePermissions(f, user, t) ==
    IF user.id = "none"
    THEN Invalid(f, "findById", ErrValidateUserNotFound)
    ELSE IF f.req.requiredPermission # ""
            /\ ~HasPermission(user, f.req.requiredPermission)
    THEN Invalid([f EXCEPT !.user = ViewOf(user)], "permission",
                 ErrPermissionRequired(f.req.requiredPermission))
    ELSE IF f.payload.type = "refresh"
            /\ ~HasValidRefreshToken(user.refreshTokens, f.req.token, t)
    THEN Invalid([f EXCEPT !.user = ViewOf(user)], "check", ErrRefreshNotStored)
    ELSE [f EXCEPT !.pc = "done", !.user = ViewOf(user),
                   !.result = [isValid |-> TRUE, payload |-> f.payload,
                               user |-> ViewOf(user)]]

\* findById resolved with user; stored-token check for refresh tokens
ValidateAfterFind(f, user, t) ==
    IF user.id = "none"
    THEN Invalid(f, "findById", ErrValidateUserNotFound)
    ELSE IF f.payload.type = "refresh"
            /\ ~HasValidRefreshToken(user.refreshTokens, f.req.token, t)
    THEN Invalid([f EXCEPT !.user = ViewOf(user)], "check", ErrRefreshNotStored)
    ELSE [f EXCEPT !.pc = "done", !.user = ViewOf(user),
                   !.result = [isValid |-> TRUE, payload |-> f.payload,
                               user |-> ViewOf(user)]]

\* Variant: a validation consumes the stored entry of the token it is shown.
ValidateFindById_Consuming(p) ==
    /\ proc[p].flow = "validate" /\ proc[p].pc = "findById"
    /\ \E dbFails \in BOOLEAN :
         proc' = [proc EXCEPT ![p] =
                    ValidateAfterFind(Awaited(proc[p], "findById", dbFails),
                       IF dbFails THEN NoUser
                       ELSE FindById(users, proc[p].payload.userId), now)]
    /\ users' = [users EXCEPT ![proc[p].payload.userId].refreshTokens =
                    RemoveRefreshToken(@, proc[p].req.token)]
    /\ UNCHANGED <<now, refreshTokenExpiry, started, issued, rotated>>

ValidateFindById(p) ==
    /\ proc[p].flow = "validate" /\ proc[p].pc = "findById"
    /\ \E dbFails \in BOOLEAN :
         proc' = [proc EXCEPT ![p] =
                    ValidateAfterFind(Awaited(proc[p], "findById", dbFails),
                       IF dbFails THEN NoUser
                       ELSE FindById(users, proc[p].payload.userId), now)]
    /\ UNCHANGED <<now, refreshTokenExpiry, users, started, issued, rotated>>

\* A User Store whose findById rejects (the adapter of this repository
\* answers null instead): the catch of execute answers for it.
ErrValidationFailed == "Token validation failed"
ErrDatabase == "Database connection failed"
FindByIdRejected == "findById rejected"

\* Variant: the rejection is thrown on to the caller.
ValidateAfterReject_Rethrow(f) == Throw(f, "catch", ErrDatabase)

ValidateAfterReject(f) == Invalid(f, "catch", ErrValidationFailed)

ValidateFindByIdRejects(p) ==
    /\ proc[p].flow = "validate" /\ proc[p].pc = "findById"
    /\ proc' = [proc EXCEPT ![p] =
                  ValidateAfterReject([proc[p] EXCEPT !.fault = FindByIdRejected])]
    /\ UNCHANGED <<now, refreshTokenExpiry, users, started, issued, rotated>>

\* ------------------------------------------------- rejecting collaborators
\* The flows are written against ports.  Besides what the adapters of this
\* repository do, a collaborator call may reject with a value of its own:
\* an Error (named here by its message) or a value that is no Error.
ErrPasswordService == "Password service unavailable"
ErrTokenGeneration == "Token generation failed"
NonErrorValue == "String error"

\* The collaborator operation a flow at pc is awaiting
OpAwaited(pc) ==
    CASE pc = "findByEmail" -> "findByEmail"
      [] pc = "findById" -> "findById"
      [] pc = "verify" -> "verify"
      [] pc = "clean" -> "cleanExpiredTokens"
      [] pc = "remove" -> "removeRefreshToken"
      [] pc = "add" -> "addRefreshToken"

RejectionsOf(op) ==
    IF op = "verify" THEN {ErrPasswordService, NonErrorValue}
    ELSE {ErrDatabase, NonErrorValue}

\* catch (error) { logger.error(...); throw error; }
Rethrow(f, op, v) == Throw([f EXCEPT !.fault = op, !.raised = v], op, v)

\* The awaited call of a login or refresh rejects with v.
CollaboratorRejects(p, v) ==
    /\ proc[p].flow \in {"login", "refresh"}
    /\ proc[p].pc \in {"findByEmail", "findById", "verify", "clean", "remove", "add"}
    /\ v \in RejectionsOf(OpAwaited(proc[p].pc))
    /\ proc' = [proc EXCEPT ![p] = Rethrow(proc[p], OpAwaited(proc[p].pc), v)]
    /\ UNCHANGED <<now, refreshTokenExpiry, users, started, issued, rotated>>

\* cleanExpiredTokens resolves, then generateAccessToken throws v.
TokenIssueThrows(p, v) ==
    /\ proc[p].flow \in {"login", "refresh"} /\ proc[p].pc = "clean"
    /\ proc' = [proc EXCEPT ![p] =
                  Rethrow(Call(proc[p], "generateAccessToken"),
                          "generateAccessToken", v)]
    /\ users' = IF proc[p].user.id \notin DOMAIN users THEN users
                ELSE [users EXCEPT ![proc[p].user.id].refreshTokens =
                         CleanExpiredTokens(@, proc[p].cleanAt)]
    /\ UNCHANGED <<now, refreshTokenExpiry, started, issued, rotated>>

\* --------------------------------------------------------- AuthController
\* String.prototype.includes
Includes(message, needle) ==
    \E i \in 1..(Len(message) - Len(needle) + 1) :
        SubSeq(message, i, i + Len(needle) - 1) = needle

\* error instanceof Error ? error.message : 'Unknown error'
ErrorMessage(v) == IF v = NonErrorValue THEN "Unknown error" ELSE v

\* res.status(status).json({ error, message })
Answer(f, status, error, message) ==
    [f EXCEPT !.response = [NoResponse EXCEPT !.status = status,
                               !.error = error, !.message = message]]

\* AuthController.login after loginUser.execute settled
LoginResponse(f) ==
    IF f.result.status = "ok" THEN Answer(f, 200, "", "Login successful")
    ELSE LET errorMessage == ErrorMessage(f.result.error) IN
         IF Includes(errorMessage, "Invalid email or password")
         THEN Answer(f, 401, "Authentication failed", "Invalid email or password")
         ELSE IF Includes(errorMessage, "required") \/ Includes(errorMessage, "format")
         THEN Answer(f, 400, "Validation error", errorMessage)
         ELSE Answer(f, 500, "Internal server error",
                     "Login service temporarily unavailable")

\* Variant: 'User not found' is not counted among the authentication failures.
RefreshResponse_UserNotFoundUnexpected(f) ==
    IF f.result.status = "ok" THEN Answer(f, 200, "", "Token refreshed successfully")
    ELSE LET errorMessage == ErrorMessage(f.result.error) IN
         IF Includes(errorMessage, "Invalid or expired refresh token")
         THEN Answer(f, 401, "Authentication failed",
                     "Invalid or expired refresh token")
         ELSE IF Includes(errorMessage, "required")
         THEN Answer(f, 400, "Validation error", errorMessage)
         ELSE Answer(f, 500, "Internal server error",
                     "Token refresh service temporarily unavailable")

\* AuthController.refresh after refreshToken.execute settled
RefreshResponse(f) ==
    IF f.result.status = "ok" THEN Answer(f, 200, "", "Token refreshed successfully")
    ELSE LET errorMessage == ErrorMessage(f.result.error) IN
         IF Includes(errorMessage, "Invalid or expired refresh token")
            \/ Includes(errorMessage, "User not found")
         THEN Answer(f, 401, "Authentication failed",
                     "Invalid or expired refresh token")
         ELSE IF Includes(errorMessage, "required")
         THEN Answer(f, 400, "Validation error", errorMessage)
         ELSE Answer(f, 500, "Internal server error",
                     "Token refresh service temporarily unavailable")

\* The controller awaits its use case and has not answered yet.
Responding(p) ==
    /\ proc[p].guard.handler \in {"login", "refresh"}
    /\ proc[p].pc = "done" /\ proc[p].response.status = 0

\* POST /auth/login: the controller's own check of the body, then the use
\* case up to its first await
ControllerLogin(p, r) ==
    /\ CanStart(p) /\ ~Responding(p)
    /\ LET f == [IdleFrame EXCEPT
                   !.flow = "login", !.guard.handler = "login",
                   !.req = [NoRequest EXCEPT !.email = r.email,
                                             !.password = r.password]]
       IN proc' = [proc EXCEPT ![p] =
                     IF r.email = <<>> \/ r.password = ""
                     THEN Answer([f EXCEPT !.pc = "done"], 400,
                                 "Validation error", ErrCredentialsRequired)
                     ELSE LoginValidate(f)]
    /\ started' = started + 1
    /\ UNCHANGED <<now, refreshTokenExpiry, users, issued, rotated>>

\* POST /auth/refresh
ControllerRefresh(p, token) ==
    /\ CanStart(p) /\ ~Responding(p)
    /\ LET f == [IdleFrame EXCEPT
                   !.flow = "refresh", !.guard.handler = "refresh",
                   !.req = [NoRequest EXCEPT !.token = token],
                   !.reuse = (token \in rotated)]
       IN proc' = [proc EXCEPT ![p] =
                     IF token = EmptyToken
                     THEN Answer([f EXCEPT !.pc = "done"], 400,
                                 "Validation error", ErrRefreshTokenRequired)
                     ELSE RefreshValidate(f, now)]
    /\ started' = started + 1
    /\ UNCHANGED <<now, refreshTokenExpiry, users, issued, rotated>>

\* The controller resumes after its use case settled and answers.
LoginRespond(p) ==
    /\ proc[p].flow = "login" /\ Responding(p)
    /\ proc' = [proc EXCEPT ![p] = LoginResponse(proc[p])]
    /\ UNCHANGED <<now, refreshTokenExpiry, users, started, issued, rotated>>

RefreshRespond(p) ==
    /\ proc[p].flow = "refresh" /\ Responding(p)
    /\ proc' = [proc EXCEPT ![p] = RefreshResponse(proc[p])]
    /\ UNCHANGED <<now, refreshTokenExpiry, users, started, issued, rotated>>

\* --------------------------------------------------------- auth middleware
\* An Authorization header is a sequence of pieces: scheme words, spaces and
\* token strings.  <<>> is a header that is absent or empty.
Space == [kind |-> "space"]
Word(w) == [kind |-> "word", text |-> w]
Bearer == Word("Bearer")

\* authHeader.split(' ')
RECURSIVE Split(_)
Split(h) ==
    IF h = <<>> THEN << <<>> >>
    ELSE LET rest == Split(Tail(h)) IN
         IF Head(h) = Space THEN << <<>> >> \o rest
         ELSE << <<Head(h)>> \o Head(rest) >> \o Tail(rest)

\* The string a part of the header is: '' for an empty part, the token for a
\* part that is one token, else a string that is no token.
PartString(part) ==
    IF part = <<>> THEN EmptyToken
    ELSE IF Len(part) = 1 /\ part[1].kind # "word" THEN part[1]
    ELSE [kind |-> "malformed"]

\* extractTokenFromHeader of the middleware: the token, or null (NoToken)
ExtractTokenFromHeader(authHeader) ==
    IF authHeader = <<>> THEN NoToken
    ELSE LET parts == Split(authHeader) IN
         IF Len(parts) # 2 \/ parts[1] # <<Bearer>> THEN NoToken
         ELSE PartString(parts[2])

\* TokenService.extractTokenFromHeader: the same code as the middleware's
TokenServiceExtractTokenFromHeader(authHeader) ==
    IF authHeader = <<>> THEN NoToken
    ELSE LET parts == Split(authHeader) IN
         IF Len(parts) # 2 \/ parts[1] # <<Bearer>> THEN NoToken
         ELSE PartString(parts[2])

\* A call of one of the two extraction functions on its own: the header is
\* kept in guard.header, what was returned in req.token.
ExtractCall(p, impl, authHeader) ==
    /\ CanStart(p)
    /\ proc' = [proc EXCEPT ![p] =
                  [IdleFrame EXCEPT
                     !.flow = "extract", !.pc = "done",
                     !.guard = [NoGuard EXCEPT !.header = authHeader,
                                               !.handler = impl],
                     !.req = [NoRequest EXCEPT !.token =
                                IF impl = "TokenService"
                                THEN TokenServiceExtractTokenFromHeader(authHeader)
                                ELSE ExtractTokenFromHeader(authHeader)]]]
    /\ started' = started + 1
    /\ UNCHANGED <<now, refreshTokenExpiry, users, issued, rotated>>

ErrAuthenticationRequired == "Authentication required"
ErrAuthenticationFailed == "Authentication failed"
MsgBearerRequired == "Authorization header with Bearer token is required"

Unauthorized(f, error, message) ==
    [f EXCEPT !.pc = "done",
              !.response = [NoResponse EXCEPT !.status = 401, !.error = error,
                                              !.message = message]]

\* Variant: an optional middleware lets a request with a refused token pass
\* unauthenticated.
GuardRespond_OptionalLenient(f) ==
    IF ~f.result.isValid
    THEN IF f.guard.optional
         THEN [f EXCEPT !.response = [NoResponse EXCEPT !.next = TRUE]]
         ELSE Unauthorized(f, ErrAuthenticationFailed, f.result.error)
    ELSE [f EXCEPT !.response = [NoResponse EXCEPT !.next = TRUE,
                                    !.user = f.result.user,
                                    !.token = f.result.payload]]

\* The middleware after validateToken.execute resolved
GuardRespond(f) ==
    IF ~f.result.isValid
    THEN Unauthorized(f, ErrAuthenticationFailed, f.result.error)
    ELSE [f EXCEPT !.response = [NoResponse EXCEPT !.next = TRUE,
                                    !.user = f.result.user,
                                    !.token = f.result.payload]]

\* The middleware up to its answer for a request without token, else up to
\* where validateToken.execute first awaits or settles
GuardEnter(f, t) ==
    LET token == ExtractTokenFromHeader(f.guard.header) IN
    IF token \in {NoToken, EmptyToken}
    THEN IF f.guard.optional
         THEN [f EXCEPT !.pc = "done",
                        !.response = [NoResponse EXCEPT !.next = TRUE]]
         ELSE Unauthorized(f, ErrAuthenticationRequired, MsgBearerRequired)
    ELSE ValidateChecks([f EXCEPT !.req.token = token], t)

GuardStart(p, header, optional, perm, type) ==
    /\ CanStart(p)
    /\ proc' = [proc EXCEPT ![p] =
                  GuardEnter([IdleFrame EXCEPT
                     !.flow = "guard",
                     !.guard = [NoGuard EXCEPT !.optional = optional,
                                               !.header = header],
                     !.req = [NoRequest EXCEPT !.requiredPermission = perm,
                                               !.requiredTokenType = type]], now)]
    /\ started' = started + 1
    /\ UNCHANGED <<now, refreshTokenExpiry, users, issued, rotated>>

\* findById resolved: validateToken.execute settles
GuardFindById(p) ==
    /\ proc[p].flow = "guard" /\ proc[p].pc = "findById"
    /\ \E dbFails \in BOOLEAN :
         proc' = [proc EXCEPT ![p] =
                    ValidateAfterFind(Awaited(proc[p], "findById", dbFails),
                       IF dbFails THEN NoUser
                       ELSE FindById(users, proc[p].payload.userId), now)]
    /\ UNCHANGED <<now, refreshTokenExpiry, users, started, issued, rotated>>

\* The middleware resumes after validateToken.execute settled and answers
\* or passes the request on.
GuardResume(p) ==
    /\ proc[p].flow = "guard" /\ Settled(proc[p])
    /\ proc' = [proc EXCEPT ![p] = GuardRespond(proc[p])]
    /\ UNCHANGED <<now, refreshTokenExpiry, users, started, issued, rotated>>

\* ------------------------------------------------------ POST /auth/logout
\* The route runs the optional middleware, then AuthController.logout, which
\* has no await: it answers in the step in which the middleware calls next().
MsgMustAuthenticate == "Must be authenticated to logout"
MsgLogoutSuccessful == "Logout successful"

\* AuthController.logout on a request the middleware let pass: the refresh
\* token of the body is logged, nothing is removed.
Logout(f) ==
    IF f.pc # "done" \/ ~f.response.next THEN f
    ELSE IF f.response.user = UserView
    THEN [f EXCEPT !.response.status = 401,
                   !.response.error = ErrAuthenticationRequired,
                   !.response.message = MsgMustAuthenticate]
    ELSE [f EXCEPT !.response.status = 200,
                   !.response.message = MsgLogoutSuccessful]

LogoutStart(p, header, body) ==
    /\ CanStart(p)
    /\ proc' = [proc EXCEPT ![p] =
                  Logout(GuardEnter([IdleFrame EXCEPT
                     !.flow = "logout",
                     !.guard = [optional |-> TRUE, header |-> header,
                                handler |-> "logout", body |-> body]], now))]
    /\ started' = started + 1
    /\ UNCHANGED <<now, refreshTokenExpiry, users, issued, rotated>>

LogoutFindById(p) ==
    /\ proc[p].flow = "logout" /\ proc[p].pc = "findById"
    /\ \E dbFails \in BOOLEAN :
         proc' = [proc EXCEPT ![p] =
                    ValidateAfterFind(Awaited(proc[p], "findById", dbFails),
                       IF dbFails THEN NoUser
                       ELSE FindById(users, proc[p].payload.userId), now)]
    /\ UNCHANGED <<now, refreshTokenExpiry, users, started, issued, rotated>>

\* The middleware resumes; on next() the controller answers.
LogoutResume(p) ==
    /\ proc[p].flow = "logout" /\ Settled(proc[p])
    /\ proc' = [proc EXCEPT ![p] = Logout(GuardRespond(proc[p]))]
    /\ UNCHANGED <<now, refreshTokenExpiry, users, started, issued, rotated>>

\* ----------------------------------------------------- user administration
\* MongooseUserRepository.create, update and delete.  No request handler
\* calls them (create is called by scripts/createAdminUser.ts); each awaits
\* one database operation.
ErrCreateFailed == "Failed to create user"
ErrUpdateFailed == "Failed to update user"
ErrEmailExists(email) == <<"User with email", email, "already exists">>

\* String.prototype.trim of the schema's setter on email
RECURSIVE Trim(_)
Trim(str) ==
    IF str # <<>> /\ Head(str) = " " THEN Trim(Tail(str))
    ELSE IF str # <<>> /\ str[Len(str)] = " "
    THEN Trim(SubSeq(str, 1, Len(str) - 1))
    ELSE str

\* The schema's setters on the fields written: email is trimmed and
\* lower-cased.
Cast(data) ==
    [k \in DOMAIN data |->
        IF k = "email" THEN ToLowerCase(Trim(data[k])) ELSE data[k]]

\* The schema's validators on the fields written: the pattern of email,
\* minlength 60 of passwordHash.
Validates(data) ==
    /\ "email" \in DOMAIN data => IsValidEmail(data.email)
    /\ "passwordHash" \in DOMAIN data =>
          data.passwordHash # MalformedHash("length")

\* The unique index on email: another document holds the address.
DuplicateKey(us, id, data) ==
    /\ "email" \in DOMAIN data
    /\ \E o \in DOMAIN us \ {id} : us[o].email = data.email

\* The document with the fields of data written over its own.
Updated(doc, data) ==
    [k \in DOMAIN doc |-> IF k \in DOMAIN data THEN data[k] ELSE doc[k]]

\* pre('save'): refreshTokens.filter(token => token.expiresAt > now)
PreSave(refreshTokens, t) ==
    SelectSeq(refreshTokens, LAMBDA e : e.expiresAt > t)

\* Ids the database gives to new documents: one for every call there can
\* be, none of them held by a stored document.
NewUserIds == {"u" \o ToString(n) : n \in 3..(MaxFlows + 2)}

\* create(userData) up to the await of userDoc.save(): save() runs the
\* pre-save hook before it sends the insert, so the hook reads the clock of
\* the call; hooked is the token list it leaves in the document.
CreateStart(p, userData) ==
    /\ CanStart(p)
    /\ proc' = [proc EXCEPT ![p] =
                  [IdleFrame EXCEPT !.flow = "create", !.pc = "create",
                                    !.args = [id |-> "none", data |-> userData,
                                              hooked |-> PreSave(userData.refreshTokens, now)]]]
    /\ started' = started + 1
    /\ UNCHANGED <<now, refreshTokenExpiry, users, issued, rotated>>

\* save() settled: validation, the insert of the document the hook left
CreateStep(p) ==
    /\ proc[p].flow = "create" /\ proc[p].pc = "create"
    /\ \E dbFails \in BOOLEAN :
         LET data == Cast(proc[p].args.data)
             f == Awaited(proc[p], "create", dbFails)
         IN  IF dbFails \/ ~Validates(data)
             THEN /\ proc' = [proc EXCEPT ![p] = Throw(f, "create", ErrCreateFailed)]
                  /\ users' = users
             ELSE IF DuplicateKey(users, "none", data)
             THEN /\ proc' = [proc EXCEPT ![p] =
                                Throw(f, "create",
                                      ErrEmailExists(proc[p].args.data.email))]
                  /\ users' = users
             ELSE \E id \in NewUserIds \ DOMAIN users :
                    LET doc == [id |-> id, email |-> data.email,
                                passwordHash |-> data.passwordHash,
                                permissions |-> data.permissions,
                                refreshTokens |-> proc[p].args.hooked]
                    IN /\ proc' = [proc EXCEPT ![p] =
                                     [f EXCEPT !.pc = "done",
                                               !.result = [status |-> "ok",
                                                           value |-> doc]]]
                       /\ users' = [u \in DOMAIN users \cup {id} |->
                                       IF u = id THEN doc ELSE users[u]]
    /\ UNCHANGED <<now, refreshTokenExpiry, started, issued, rotated>>

\* update(id, updates) up to the await of findByIdAndUpdate
UpdateStart(p, id, updates) ==
    /\ CanStart(p)
    /\ proc' = [proc EXCEPT ![p] =
                  [IdleFrame EXCEPT !.flow = "update", !.pc = "update",
                                    !.args = [NoArgs EXCEPT !.id = id,
                                                              !.data = updates]]]
    /\ started' = started + 1
    /\ UNCHANGED <<now, refreshTokenExpiry, users, issued, rotated>>

\* findByIdAndUpdate settled: the updated document, null for an id without
\* document, 'Failed to update user' for a database or validation error
UpdateStep(p) ==
    /\ proc[p].flow = "update" /\ proc[p].pc = "update"
    /\ \E dbFails \in BOOLEAN :
         LET id == proc[p].args.id
             data == Cast(proc[p].args.data)
             f == Awaited(proc[p], "update", dbFails)
         IN  IF dbFails \/ ~Validates(data)
                \/ (id \in DOMAIN users /\ DuplicateKey(users, id, data))
             THEN /\ proc' = [proc EXCEPT ![p] = Throw(f, "update", ErrUpdateFailed)]
                  /\ users' = users
             ELSE IF id \notin DOMAIN users
             THEN /\ proc' = [proc EXCEPT ![p] =
                                [f EXCEPT !.pc = "done",
                                          !.result = [status |-> "ok",
                                                      value |-> NoUser]]]
                  /\ users' = users
             ELSE /\ proc' = [proc EXCEPT ![p] =
                                [f EXCEPT !.pc = "done",
                                          !.result = [status |-> "ok",
                                                      value |-> Updated(users[id], data)]]]
                  /\ users' = [users EXCEPT ![id] = Updated(@, data)]
    /\ UNCHANGED <<now, refreshTokenExpiry, started, issued, rotated>>

\* delete(id) up to the await of findByIdAndDelete
DeleteStart(p, id) ==
    /\ CanStart(p)
    /\ proc' = [proc EXCEPT ![p] =
                  [IdleFrame EXCEPT !.flow = "delete", !.pc = "delete",
                                    !.args = [NoArgs EXCEPT !.id = id]]]
    /\ started' = started + 1
    /\ UNCHANGED <<now, refreshTokenExpiry, users, issued, rotated>>

\* findByIdAndDelete settled: true if a document was removed, false if
\* there was none or the database failed
DeleteStep(p) ==
    /\ proc[p].flow = "delete" /\ proc[p].pc = "delete"
    /\ \E dbFails \in BOOLEAN :
         LET removed == ~dbFails /\ proc[p].args.id \in DOMAIN users IN
         /\ proc' = [proc EXCEPT ![p] =
                       [Awaited(proc[p], "delete", dbFails) EXCEPT
                           !.pc = "done",
                           !.result = [status |-> "ok", value |-> removed]]]
         /\ users' = IF removed
                     THEN [u \in DOMAIN users \ {proc[p].args.id} |-> users[u]]
                     ELSE users
    /\ UNCHANGED <<now, refreshTokenExpiry, started, issued, rotated>>

\* Permission lists an administrator gives a user.
PermissionSets == {<<"read:posts">>, <<"create:posts">>}

\* ------------------------------------------------------------------ clock
Tick ==
    /\ \E t \in ClockInstants : t > now /\ now' = t
    /\ UNCHANGED <<refreshTokenExpiry, users, proc, started, issued, rotated>>

\* The clock advanced to one given instant.
TickTo(t) ==
    /\ t > now /\ now' = t
    /\ UNCHANGED <<refreshTokenExpiry, users, proc, started, issued, rotated>>

\* ---------------------------------------------------------- specifications
IssuedOfType(type) == {t \in issued : t.kind = "jwt" /\ t.type = type}
StoredTokens(u) == {users[u].refreshTokens[i].token : i \in 1..Len(users[u].refreshTokens)}

\* Credentials of the registered user u1.
SessionLogins == {[email |-> EmailU1, password |-> "correct"]}

LoginSteps(p) ==
    \/ LoginFindByEmail(p)
    \/ LoginVerify(p)
    \/ LoginClean(p)
    \/ LoginAdd(p)

RefreshSteps(p) ==
    \/ RefreshFindById(p)
    \/ RefreshClean(p)
    \/ RefreshRemove(p)
    \/ RefreshAdd(p)

\* Sessions of one user: logins with the right credentials, refreshes and
\* validations presenting refresh tokens the service handed out, on
\* concurrent requests.
Next ==
    \/ \E p \in Procs, r \in SessionLogins : LoginStart(p, r)
    \/ \E p \in Procs : LoginSteps(p)
    \/ \E p \in Procs, token \in IssuedOfType("refresh") : RefreshStart(p, token)
    \/ \E p \in Procs : RefreshSteps(p)
    \/ \E p \in Procs, token \in IssuedOfType("refresh") :
          ValidateStart(p, token, "", "")
    \/ \E p \in Procs : ValidateFindById(p)
    \/ Tick

Spec == InitDefault /\ [][Next]_vars

\* The same sessions under either configured refresh-token lifetime.
SpecExpiry == Init /\ [][Next]_vars

\* Login requests of every shape, on concurrent requests.
NextLogin ==
    \/ \E p \in Procs, r \in LoginRequests : LoginStart(p, r)
    \/ \E p \in Procs : LoginSteps(p)
    \/ Tick

SpecLogin == InitDefault /\ [][NextLogin]_vars

\* Refreshes presenting any token string: tokens of either type the service
\* handed out, foreign or damaged strings, the empty string.
NextCodec ==
    \/ \E p \in Procs, r \in SessionLogins : LoginStart(p, r)
    \/ \E p \in Procs : LoginSteps(p)
    \/ \E p \in Procs, token \in PresentableTokens : RefreshStart(p, token)
    \/ \E p \in Procs : RefreshSteps(p)
    \/ Tick

SpecCodec == InitDefault /\ [][NextCodec]_vars

\* Validations of any presentable token, of every type, under the options
\* of the route guards, against a User Store whose lookups may also reject.
AdminTokens ==
    {GenerateAdminToken(InitUsers[u], 0).token :
        u \in {v \in UserIds : GenerateAdminToken(InitUsers[v], 0).ok}}

\* Tokens presented for validation: the issued ones, an administrator's, the
\* empty string, a forged signature and a string the codec chokes on.
ValidatedTokens ==
    issued \cup AdminTokens
       \cup {EmptyToken, [kind |-> "badsig"], [kind |-> "nonerror"]}

NextValidate ==
    \/ \E r \in SessionLogins : LoginStart(1, r)
    \/ LoginSteps(1)
    \/ \E token \in IssuedOfType("refresh") : RefreshStart(1, token)
    \/ RefreshSteps(1)
    \/ \E p \in Procs, token \in ValidatedTokens,
          perm \in RequiredPermissions, type \in RequiredTokenTypes :
          ValidateStart(p, token, perm, type)
    \/ \E p \in Procs : ValidateFindById(p)
    \/ \E p \in Procs : ValidateFindByIdRejects(p)
    \/ Tick

SpecValidate == InitDefault /\ [][NextValidate]_vars

\* Sessions of a user whose permissions are changed meanwhile; access tokens
\* are validated as the read and create route guards do.
GuardedPermissions == {"read:posts", "create:posts"}

\* The access token of a session begun at the start instant: what a login of
\* u1 returned then.
EarlierTokens == {GenerateAccessToken(InitUsers["u1"], 0)}

NextPermissions ==
    \/ \E r \in SessionLogins : LoginStart(1, r)
    \/ LoginSteps(1)
    \/ \E token \in IssuedOfType("refresh") : RefreshStart(1, token)
    \/ RefreshSteps(1)
    \/ \E perms \in PermissionSets :
          UpdateStart(2, "u1", [permissions |-> perms])
    \/ UpdateStep(2)
    \/ \E p \in Procs, token \in IssuedOfType("access") \cup EarlierTokens,
          perm \in GuardedPermissions : ValidateStart(p, token, perm, "access")
    \/ \E p \in Procs : ValidateFindById(p)
    \/ Tick

SpecPermissions == InitDefault /\ [][NextPermissions]_vars

\* Requests through the middleware as the routes configure it, with
\* Authorization headers of every shape.
MalformedHeaders ==
    LET token == [kind |-> "badsig"]
    IN  {<<>>, <<Bearer>>, <<Bearer, Space>>, <<token>>,
         <<Word("bearer"), Space, token>>, <<Word("Basic"), Space, token>>,
         <<Bearer, Space, Space, token>>,
         <<Bearer, Space, token, Space, token>>}

HeadersWith(tokens) ==
    MalformedHeaders \cup {<<Bearer, Space, token>> : token \in tokens}

\* optional(), requireReadAccess(), requireCreateAccess()
GuardOptions ==
    {[optional |-> TRUE, perm |-> "", type |-> ""],
     [optional |-> FALSE, perm |-> "read:posts", type |-> "access"],
     [optional |-> FALSE, perm |-> "create:posts", type |-> "access"]}

NextGuard ==
    \/ \E r \in SessionLogins : LoginStart(1, r)
    \/ LoginSteps(1)
    \/ \E p \in Procs, o \in GuardOptions,
          header \in HeadersWith(issued \cup {[kind |-> "badsig"]}) :
          GuardStart(p, header, o.optional, o.perm, o.type)
    \/ \E p \in Procs : GuardFindById(p)
    \/ \E p \in Procs : GuardResume(p)
    \/ Tick

SpecGuard == InitDefault /\ [][NextGuard]_vars

\* Sessions that end with a logout: the access token in the header, the
\* refresh token (or none) in the body.
NextLogout ==
    \/ \E r \in SessionLogins : LoginStart(1, r)
    \/ LoginSteps(1)
    \/ \E token \in IssuedOfType("refresh") : RefreshStart(1, token)
    \/ RefreshSteps(1)
    \/ \E p \in Procs, access \in IssuedOfType("access"),
          body \in IssuedOfType("refresh") \cup {EmptyToken} :
          \E header \in {<<>>, <<Bearer, Space, access>>} :
             LogoutStart(p, header, body)
    \/ \E p \in Procs : LogoutFindById(p)
    \/ \E p \in Procs : LogoutResume(p)
    \/ Tick

SpecLogout == InitDefault /\ [][NextLogout]_vars

\* Logins and refreshes against collaborators that may reject.
NextFailures ==
    \/ \E p \in Procs, r \in SessionLogins : LoginStart(p, r)
    \/ \E p \in Procs : LoginSteps(p)
    \/ \E p \in Procs, token \in IssuedOfType("refresh") : RefreshStart(p, token)
    \/ \E p \in Procs : RefreshSteps(p)
    \/ \E p \in Procs, v \in {ErrDatabase, ErrPasswordService, NonErrorValue} :
          CollaboratorRejects(p, v)
    \/ \E p \in Procs, v \in {ErrTokenGeneration, NonErrorValue} :
          TokenIssueThrows(p, v)

SpecFailures == InitDefault /\ [][NextFailures]_vars

\* HTTP logins and refreshes with bodies of every shape, against
\* collaborators that may reject.
NextHttp ==
    \/ \E p \in Procs, r \in LoginRequests : ControllerLogin(p, r)
    \/ \E p \in Procs : LoginSteps(p)
    \/ \E p \in Procs : LoginRespond(p)
    \/ \E p \in Procs, token \in PresentableTokens : ControllerRefresh(p, token)
    \/ \E p \in Procs : RefreshSteps(p)
    \/ \E p \in Procs : RefreshRespond(p)
    \/ \E p \in Procs, v \in {ErrDatabase, ErrPasswordService, NonErrorValue} :
          CollaboratorRejects(p, v)
    \/ \E p \in Procs, v \in {ErrTokenGeneration, NonErrorValue} :
          TokenIssueThrows(p, v)

SpecHttp == InitDefault /\ [][NextHttp]_vars

\* Calls of the header extraction with headers of every shape: every
\* sequence of up to MaxHeaderLen pieces, and the longer malformed ones.
HeaderPieces ==
    {Bearer, Word("bearer"), Word("Basic"), Space, [kind |-> "badsig"]}

RECURSIVE HeadersOfLen(_)
HeadersOfLen(n) ==
    IF n = 0 THEN {<<>>}
    ELSE {Append(h, x) : h \in HeadersOfLen(n - 1), x \in HeaderPieces}

AuthHeaders ==
    UNION {HeadersOfLen(n) : n \in 0..MaxHeaderLen} \cup MalformedHeaders

NextExtract ==
    \E impl \in {"TokenService", "middleware"}, authHeader \in AuthHeaders :
        ExtractCall(1, impl, authHeader)

SpecExtract == InitDefault /\ [][NextExtract]_vars

\* Verifications of passwords against stored hashes of every form.
PlainPasswords == {"correct", "Correct", "wrong", ""}
StoredHashes ==
    {PasswordHashOf("correct", 1), PasswordHashOf("correct", 2),
     PasswordHashOf("", 3)} \cup MalformedHashes

NextPassword ==
    \/ \E p \in Procs, plainPassword \in PlainPasswords,
          hashedPassword \in StoredHashes :
          PasswordVerifyStart(p, plainPassword, hashedPassword)
    \/ \E p \in Procs : PasswordVerifyStep(p)

SpecPassword == InitDefault /\ [][NextPassword]_vars

\* Sessions of one user served one request after the other: no two flows
\* interleave.
NextSerial ==
    \/ \E r \in SessionLogins : LoginStart(1, r)
    \/ LoginSteps(1)
    \/ \E token \in IssuedOfType("refresh") : RefreshStart(1, token)
    \/ RefreshSteps(1)
    \/ Tick

SpecSerial == InitDefault /\ [][NextSerial]_vars

\* Sessions of two users; refreshes present tokens of every type the service
\* signs: the access and refresh tokens handed out and an administrator's
\* admin token.
UserLogins ==
    {[email |-> e, password |-> "correct"] : e \in {EmailU1, EmailU2}}

NextUsers ==
    \/ \E r \in UserLogins : LoginStart(1, r)
    \/ LoginSteps(1)
    \/ \E p \in Procs, token \in issued \cup AdminTokens : RefreshStart(p, token)
    \/ \E p \in Procs : RefreshSteps(p)
    \/ Tick

SpecUsers == InitDefault /\ [][NextUsers]_vars

\* Concurrent sessions of two users: logins and refreshes of the refresh
\* tokens handed out, on both requests.
\* A second later (another token string) and just over seven days later (the
\* entries of the start have expired, those made a second later have not).
SessionInstants == {1000, SevenDaysMs + 1}

NextSessions ==
    \/ \E p \in Procs, r \in UserLogins : LoginStart(p, r)
    \/ \E p \in Procs : LoginSteps(p)
    \/ \E p \in Procs, token \in IssuedOfType("refresh") : RefreshStart(p, token)
    \/ \E p \in Procs : RefreshSteps(p)
    \/ \E t \in SessionInstants : TickTo(t)

SpecSessions == InitDefault /\ [][NextSessions]_vars

\* Requests to the routes guarded by requireReadAccess, requireCreateAccess
\* and requireAdminAccess, presenting tokens of every type: those handed to
\* either user and an administrator's admin token.
RouteGuards == {"read:posts", "create:posts", "admin"}

NextRoutes ==
    \/ \E r \in UserLogins : LoginStart(1, r)
    \/ LoginSteps(1)
    \/ \E p \in Procs, perm \in RouteGuards, token \in issued \cup AdminTokens :
          GuardStart(p, <<Bearer, Space, token>>, FALSE, perm, "access")
    \/ \E p \in Procs : GuardFindById(p)
    \/ \E p \in Procs : GuardResume(p)
    \/ Tick

SpecRoutes == InitDefault /\ [][NextRoutes]_vars

\* Sessions of a user while the users collection is administered: users
\* are created, updated and deleted between the steps of logins and
\* refreshes.
StoreLogins ==
    {[email |-> e, password |-> "correct"] : e \in {EmailU1, EmailNobody}}

\* Records given to create: a new address, one that is taken once trimmed
\* and lower-cased, one of a bad shape; without stored tokens or with an
\* entry that expires a second after the start.
NewUsers ==
    {[email |-> e, passwordHash |-> PasswordHashOf("correct", 3),
      permissions |-> <<"read:posts">>, refreshTokens |-> rts] :
        e \in {EmailNobody, <<" ">> \o EmailU1Upper, <<"u", "x">>},
        rts \in {<<>>, <<[token |-> [kind |-> "badsig"], expiresAt |-> 1000,
                         createdAt |-> 0]>>}}

\* Updates of a user: other permissions, another address (free, taken, of a
\* bad shape), another password hash (well-formed, too short), the stored
\* tokens dropped.
UserUpdates ==
    {[permissions |-> <<"create:posts">>], [refreshTokens |-> <<>>],
     [email |-> EmailNobody], [email |-> EmailU2], [email |-> <<"u", "x">>],
     [passwordHash |-> PasswordHashOf("other", 4)],
     [passwordHash |-> MalformedHash("length")]}

\* Ids given to update and delete: a registered user's and one without
\* document.
AdministeredIds == {"u1", "u9"}

NextStore ==
    \/ \E r \in StoreLogins : LoginStart(1, r)
    \/ LoginSteps(1)
    \/ \E token \in IssuedOfType("refresh") : RefreshStart(1, token)
    \/ RefreshSteps(1)
    \/ \E p \in Procs, userData \in NewUsers : CreateStart(p, userData)
    \/ \E p \in Procs : CreateStep(p)
    \/ \E id \in AdministeredIds, updates \in UserUpdates :
          UpdateStart(2, id, updates)
    \/ UpdateStep(2)
    \/ \E id \in AdministeredIds : DeleteStart(2, id)
    \/ DeleteStep(2)
    \/ TickTo(1000)

SpecStore == InitDefault /\ [][NextStore]_vars

\* HTTP logins and refreshes over the Mongoose adapter, whose database may
\* fail on any operation.
NextAdapter ==
    \/ \E p \in Procs, r \in SessionLogins : ControllerLogin(p, r)
    \/ \E p \in Procs : LoginSteps(p)
    \/ \E p \in Procs : LoginRespond(p)
    \/ \E p \in Procs, token \in IssuedOfType("refresh") :
          ControllerRefresh(p, token)
    \/ \E p \in Procs : RefreshSteps(p)
    \/ \E p \in Procs : RefreshRespond(p)
    \/ TickTo(1000)

SpecAdapter == InitDefault /\ [][NextAdapter]_vars

\* ================================================================= claims
Succeeded(p, flow) ==
    /\ proc[p].flow = flow /\ proc[p].pc = "done"
    /\ proc[p].result.status = "ok"
Failed(p, flow) ==
    /\ proc[p].flow = flow /\ proc[p].pc = "done"
    /\ proc[p].result.status = "error"
StorageErrors == {ErrAddFailed, ErrRemoveFailed, ErrCleanFailed}
EntriesFor(u, token) ==
    {i \in 1..Len(users[u].refreshTokens) : users[u].refreshTokens[i].token = token}
\* p's awaited findById resolves in this step.
FindByIdStep(p, flow) ==
    /\ proc[p].flow = flow /\ proc[p].pc = "findById"
    /\ proc'[p].pc # "findById"

\* C1: a successful refresh returns a refresh token different from the one
\* presented, and no refresh started after a successful refresh of T succeeds
\* with T again (rotation invalidates the old token).
C1_RotationInvalidatesOld ==
    \A p \in Procs :
        Succeeded(p, "refresh") =>
            /\ proc[p].result.value.refreshToken # proc[p].req.token
            /\ ~proc[p].reuse

\* C2: once a refresh has passed the stored-token check, nothing but a storage
\* failure stops it, whatever another refresh presenting the same token does
\* meanwhile: it is never rejected as invalid, and when its addRefreshToken
\* resolves its new token is stored.
C2_PassedCheckNeverRejected ==
    [][\A p \in Procs :
          (proc[p].flow = "refresh" /\ proc[p].pc \in {"clean", "remove", "add"}
              /\ proc'[p] # proc[p]) =>
             /\ proc'[p].flow = "refresh"
             /\ proc'[p].result.status = "error" =>
                   /\ proc'[p].fault \in {"cleanExpiredTokens", "removeRefreshToken",
                                          "addRefreshToken"}
                   /\ proc'[p].result.error \in StorageErrors
             /\ proc'[p].fault = "" => proc'[p].result.status # "error"
             /\ proc'[p].result.status = "ok" =>
                   proc'[p].refreshToken \in
                      {users'[proc[p].user.id].refreshTokens[i].token :
                          i \in 1..Len(users'[proc[p].user.id].refreshTokens)}]_vars

\* C2 witness: two refreshes that presented the same token have both
\* succeeded, and their two different new tokens are both stored while the
\* old one is gone.
C2_TwoNewTokensFromOne ==
    \E p, q \in Procs :
        /\ p # q
        /\ Succeeded(p, "refresh") /\ Succeeded(q, "refresh")
        /\ proc[p].req.token = proc[q].req.token
        /\ ~proc[p].reuse /\ ~proc[q].reuse
        /\ proc[p].refreshToken # proc[q].refreshToken
        /\ proc[p].refreshToken # proc[p].req.token
        /\ proc[q].refreshToken # proc[p].req.token
        /\ {proc[p].refreshToken, proc[q].refreshToken} \subseteq StoredTokens(proc[p].user.id)
        /\ proc[p].req.token \notin StoredTokens(proc[p].user.id)

\* C3: when the user lookup of a refresh resolves with a user record that has
\* no entry for the presented token, the flow throws 'Invalid or expired
\* refresh token' and nothing is issued or stored; the flow goes on only if
\* the record holds an entry for the presented token.
C3_RefreshNeedsStoredEntry ==
    [][\A p \in Procs :
          FindByIdStep(p, "refresh") =>
             /\ proc'[p].pc # "done" =>
                   EntriesFor(proc[p].payload.userId, proc[p].req.token) # {}
             /\ (proc'[p].failedAt # "findById"
                   /\ EntriesFor(proc[p].payload.userId, proc[p].req.token) = {}) =>
                   /\ proc'[p].result = [status |-> "error",
                                         error |-> "Invalid or expired refresh token"]
                   /\ users' = users /\ issued' = issued]_vars

\* C3 witness: a refresh presented a token that verifies but that an earlier
\* refresh had rotated out of the user record, and was rejected at the check.
C3_RotatedTokenRejected ==
    \E p \in Procs :
        /\ Failed(p, "refresh") /\ proc[p].failedAt = "check"
        /\ proc[p].reuse
        /\ proc[p].req.token \notin StoredTokens(proc[p].user.id)

\* C4: a stored entry whose expiresAt is not later than the current time does
\* not validate its token, removed or not: if every entry stored for the
\* presented token has expiresAt <= now when the user lookup resolves, the
\* refresh throws and the validation returns isValid false.
C4_ExpiredEntryInvalid ==
    [][\A p \in Procs :
          /\ (FindByIdStep(p, "refresh")
                /\ proc'[p].pc # "done") =>
                \E i \in EntriesFor(proc[p].payload.userId, proc[p].req.token) :
                    users[proc[p].payload.userId].refreshTokens[i].expiresAt > now
          /\ (FindByIdStep(p, "validate") /\ proc[p].payload.type = "refresh"
                /\ proc'[p].result.isValid) =>
                \E i \in EntriesFor(proc[p].payload.userId, proc[p].req.token) :
                    users[proc[p].payload.userId].refreshTokens[i].expiresAt > now]_vars

\* C4 witness: an entry expiring exactly now is still stored, and both a
\* refresh and a validation presenting its token were turned down at the
\* stored-token check.
C4_BoundaryEntryRejected ==
    \E p, q \in Procs :
        /\ Failed(p, "refresh") /\ proc[p].failedAt = "check"
        /\ proc[q].flow = "validate" /\ proc[q].pc = "done"
        /\ proc[q].failedAt = "check" /\ ~proc[q].result.isValid
        /\ proc[q].req.token = proc[p].req.token
        /\ \E i \in EntriesFor(proc[p].user.id, proc[p].req.token) :
              users[proc[p].user.id].refreshTokens[i].expiresAt = now

StoreCalls == {"findByEmail", "findById", "cleanExpiredTokens",
               "removeRefreshToken", "addRefreshToken"}
NoStoreCall(calls) == \A i \in 1..Len(calls) : calls[i] \notin StoreCalls

\* C5: when a login succeeds, the user's stored refreshTokens holds an entry
\* for the returned refresh token whose expiry is its persistence time plus
\* 7 days, and the response has exactly the fields user {id, email,
\* permissions}, accessToken and refreshToken.
C5_LoginPersistsRefreshToken ==
    [][\A p \in Procs :
          (proc[p].flow = "login" /\ proc[p].pc = "add"
              /\ proc'[p].pc = "done" /\ proc'[p].result.status = "ok") =>
             LET resp == proc'[p].result.value
                 rts == users'[resp.user.id].refreshTokens
             IN /\ DOMAIN resp = {"user", "accessToken", "refreshToken"}
                /\ DOMAIN resp.user = {"id", "email", "permissions"}
                /\ resp.refreshToken.kind = "jwt"
                /\ \E i \in 1..Len(rts) :
                      /\ rts[i].token = resp.refreshToken
                      /\ rts[i].expiresAt = rts[i].createdAt + 604800000
                      /\ rts[i].createdAt <= now
                      /\ rts[i].createdAt \div 1000 >= resp.refreshToken.iat]_vars

\* C5 witness: a login has succeeded and the entry of the returned refresh
\* token is stored.
C5_LoginSucceeded ==
    \E p \in Procs :
        /\ Succeeded(p, "login")
        /\ proc[p].result.value.user.email = EmailU1
        /\ EntriesFor("u1", proc[p].result.value.refreshToken) # {}

\* C6: a login whose email or password is empty, or whose email fails the
\* shape check, throws 'Email and password are required' or 'Invalid email
\* format' without having called the User Store.
C6_InvalidInputBeforeStorage ==
    \A p \in Procs :
        (proc[p].flow = "login"
            /\ (proc[p].req.email = <<>> \/ proc[p].req.password = ""
                   \/ proc[p].req.email \in BadShapeEmails)) =>
           /\ proc[p].pc = "done"
           /\ proc[p].result =
                 [status |-> "error",
                  error |-> IF proc[p].req.email = <<>> \/ proc[p].req.password = ""
                            THEN "Email and password are required"
                            ELSE "Invalid email format"]
           /\ NoStoreCall(proc[p].calls)

\* C6 witness: logins with an address lacking its top-level part and with an
\* empty password were both rejected before any store call.
C6_BadShapeRejected ==
    \E p, q \in Procs :
        /\ Failed(p, "login") /\ proc[p].req.email = <<"u", "@", "x">>
        /\ proc[p].result.error = "Invalid email format"
        /\ Failed(q, "login") /\ proc[q].req.password = ""
        /\ proc[q].result.error = "Email and password are required"

\* C7: a login failing because no user has the email and a login failing
\* because the password does not match end with the same error, 'Invalid
\* email or password'; neither issues a token nor changes the store.
CredentialFailure(f) ==
    /\ f.flow = "login" /\ f.pc = "done"
    /\ f.failedAt \in {"findByEmail", "verify"}
C7_CredentialFailuresAlike ==
    [][\A p \in Procs :
          (CredentialFailure(proc'[p]) /\ proc'[p] # proc[p]) =>
             /\ proc'[p].result = [status |-> "error",
                                   error |-> "Invalid email or password"]
             /\ \A q \in Procs :
                   CredentialFailure(proc'[q]) => proc'[q].result = proc'[p].result
             /\ proc'[p].accessToken = NoToken /\ proc'[p].refreshToken = NoToken
             /\ users' = users /\ issued' = issued]_vars

\* C7 witness: one login failed for an unregistered address and another for
\* a wrong password of a registered one.
C7_BothFailures ==
    \E p, q \in Procs :
        /\ Failed(p, "login") /\ proc[p].failedAt = "findByEmail"
        /\ proc[p].req.email = EmailNobody
        /\ Failed(q, "login") /\ proc[q].failedAt = "verify"
        /\ proc[q].req = [NoRequest EXCEPT !.email = EmailU1, !.password = "wrong"]

\* C8: a login issues tokens only after cleanExpiredTokens has completed, so
\* no entry older than the cleanup time is left when they are issued; when
\* cleanExpiredTokens fails the login throws that failure, issues no token,
\* does not call addRefreshToken and leaves the store as it was.
LoginCallOrder ==
    <<"findByEmail", "verify", "cleanExpiredTokens", "generateAccessToken",
      "generateRefreshToken", "addRefreshToken">>
C8_CleanBeforeIssue ==
    [][\A p \in Procs :
          (proc[p].flow = "login" /\ proc[p].pc = "clean" /\ proc'[p] # proc[p]) =>
             /\ proc'[p].fault = "" <=> proc'[p].pc = "add"
             /\ proc'[p].pc = "add" =>
                   /\ proc'[p].calls = LoginCallOrder
                   /\ \A i \in 1..Len(users'[proc[p].user.id].refreshTokens) :
                         users'[proc[p].user.id].refreshTokens[i].expiresAt
                            >= proc[p].cleanAt
             /\ proc'[p].fault # "" =>
                   /\ proc'[p].pc = "done"
                   /\ proc'[p].result = [status |-> "error",
                                         error |-> "Failed to clean expired tokens"]
                   /\ proc'[p].accessToken = NoToken
                   /\ proc'[p].refreshToken = NoToken
                   /\ proc'[p].calls = <<"findByEmail", "verify", "cleanExpiredTokens">>
                   /\ users' = users /\ issued' = issued]_vars

\* C8 witness: a login whose cleanup failed has thrown while an expired entry
\* is still stored for the user.
C8_CleanupFailed ==
    \E p \in Procs :
        /\ Failed(p, "login") /\ proc[p].failedAt = "cleanExpiredTokens"
        /\ \E i \in 1..Len(users["u1"].refreshTokens) :
              users["u1"].refreshTokens[i].expiresAt < proc[p].cleanAt

\* C9: a refresh whose token fails verification, for whatever reason, throws
\* exactly 'Invalid or expired refresh token', the message also given for a
\* token missing from the store, and calls no User Store operation.
C9_VerifyFailureUniform ==
    [][\A p \in Procs :
          (proc'[p].flow = "refresh" /\ started' = started + 1
              /\ proc'[p] # proc[p]
              /\ (proc'[p].req.token.kind \in GarbageKinds
                    \/ (proc'[p].req.token.kind = "jwt"
                          /\ now \div 1000 >= proc'[p].req.token.exp))) =>
             /\ proc'[p].pc = "done"
             /\ proc'[p].result = [status |-> "error",
                                   error |-> "Invalid or expired refresh token"]
             /\ \A q \in Procs :
                   (proc'[q].flow = "refresh" /\ proc'[q].failedAt = "check") =>
                      proc'[q].result = proc'[p].result
             /\ NoStoreCall(proc'[p].calls)
             /\ users' = users /\ issued' = issued]_vars

\* C9 witness: refreshes presenting an expired token of the service and a
\* string on which the library raises a non-Error value were both rejected
\* at verification.
C9_VerificationFailed ==
    \E p, q \in Procs :
        /\ Failed(p, "refresh") /\ proc[p].failedAt = "verifyToken"
        /\ proc[p].req.token.kind = "jwt" /\ proc[p].req.token.type = "refresh"
        /\ Failed(q, "refresh") /\ proc[q].failedAt = "verifyToken"
        /\ proc[q].req.token.kind = "nonerror"

\* C10: the calls of a refresh are made in the order verifyToken, findById,
\* cleanExpiredTokens, generateAccessToken, generateRefreshToken,
\* removeRefreshToken, addRefreshToken; when removeRefreshToken fails the flow
\* throws that failure, addRefreshToken is not called and the store is left
\* as it was.
RefreshCallOrder ==
    <<"verifyToken", "findById", "cleanExpiredTokens", "generateAccessToken",
      "generateRefreshToken", "removeRefreshToken", "addRefreshToken">>
IsPrefix(s, t) == Len(s) <= Len(t) /\ \A i \in 1..Len(s) : s[i] = t[i]
C10_RefreshStepOrder ==
    [][\A p \in Procs :
          proc'[p].flow = "refresh" =>
             /\ IsPrefix(proc'[p].calls, RefreshCallOrder)
             /\ (proc[p].pc = "remove" /\ proc'[p] # proc[p]
                   /\ proc'[p].fault # "") =>
                   /\ proc'[p].pc = "done"
                   /\ proc'[p].result = [status |-> "error",
                                         error |-> "Failed to remove refresh token"]
                   /\ users' = users
             /\ proc'[p].failedAt = "removeRefreshToken" =>
                   \A i \in 1..Len(proc'[p].calls) : proc'[p].calls[i] # "addRefreshToken"
             /\ (proc[p].pc = "remove" /\ proc'[p].pc = "add") =>
                   /\ proc'[p].fault = ""
                   /\ proc[p].req.token \notin
                      {users'[proc[p].user.id].refreshTokens[i].token :
                          i \in 1..Len(users'[proc[p].user.id].refreshTokens)}]_vars

\* C10 witness: a refresh whose removeRefreshToken failed has thrown without
\* calling addRefreshToken, and its new token is not stored.
C10_RemovalFailed ==
    \E p \in Procs :
        /\ Failed(p, "refresh") /\ proc[p].failedAt = "removeRefreshToken"
        /\ proc[p].refreshToken # proc[p].req.token
        /\ proc[p].refreshToken \notin StoredTokens(proc[p].user.id)

\* C11: a validation never throws.  It always resolves to a tagged result: a
\* token the codec refuses gives isValid false with 'Invalid or expired
\* token', a rejected user lookup gives isValid false with 'Token validation
\* failed'.
C11_ValidateNeverThrows ==
    [][\A p \in Procs :
          (proc'[p].flow = "validate" /\ proc'[p] # proc[p]) =>
             /\ proc'[p].pc = "done" => "isValid" \in DOMAIN proc'[p].result
             /\ (proc[p].pc # "findById" /\ proc'[p].req.token # EmptyToken
                   /\ ~VerifyToken(proc'[p].req.token, now).ok) =>
                   /\ proc'[p].pc = "done"
                   /\ proc'[p].result = [isValid |-> FALSE, error |-> ErrInvalidToken]
             /\ proc'[p].fault = FindByIdRejected =>
                   /\ proc'[p].pc = "done"
                   /\ proc'[p].result =
                         [isValid |-> FALSE, error |-> ErrValidationFailed]]_vars

\* C11 witness: one validation answered a refused token, another a rejected
\* user lookup.
C11_BothFailuresAnswered ==
    \E p, q \in Procs :
        /\ proc[p].flow = "validate" /\ proc[p].pc = "done"
        /\ proc[p].failedAt = "verifyToken"
        /\ proc[p].result.error = ErrInvalidToken
        /\ proc[q].flow = "validate" /\ proc[q].pc = "done"
        /\ proc[q].fault = FindByIdRejected
        /\ proc[q].result.error = ErrValidationFailed

\* C12: when the user lookup of a validation finds the user, a token of type
\* access or admin is valid whatever the user's refreshTokens hold, and a
\* token of type refresh is valid only if an entry with that very token and
\* an expiry after now is stored; otherwise the answer is 'Refresh token not
\* found or expired'.
C12_StoredCheckOnlyForRefresh ==
    [][\A p \in Procs :
          (proc[p].flow = "validate" /\ proc[p].pc = "findById"
              /\ proc'[p] # proc[p] /\ proc'[p].fault = "") =>
             LET rts == users[proc[p].payload.userId].refreshTokens
                 stored == \E i \in 1..Len(rts) :
                              /\ rts[i].token = proc[p].req.token
                              /\ rts[i].expiresAt > now
             IN  /\ proc[p].payload.type \in {"access", "admin"} =>
                       proc'[p].result.isValid
                 /\ proc[p].payload.type = "refresh" =>
                       /\ proc'[p].result.isValid <=> stored
                       /\ ~stored => proc'[p].result =
                             [isValid |-> FALSE, error |-> ErrRefreshNotStored]]_vars

\* C12 witness: an access token was found valid and a refresh token of the
\* same user, with no unexpired entry stored, was refused.
C12_AccessValidRefreshRefused ==
    \E p, q \in Procs :
        /\ proc[p].flow = "validate" /\ proc[p].pc = "done"
        /\ proc[p].payload.type = "access" /\ proc[p].result.isValid
        /\ proc[q].flow = "validate" /\ proc[q].pc = "done"
        /\ proc[q].payload.type = "refresh"
        /\ proc[q].payload.userId = proc[p].payload.userId
        /\ proc[q].result = [isValid |-> FALSE, error |-> ErrRefreshNotStored]

\* C13: no step of a validation changes the users collection and a
\* validation calls nothing but verifyToken and findById; a validation of an
\* access token whose user lookup resolves gives the same isValid and payload
\* as an earlier successful validation of the same request.
C13_ValidateLeavesStore ==
    [][\A q \in Procs :
          (proc'[q].flow = "validate" /\ proc'[q] # proc[q]) =>
             /\ users' = users
             /\ \A i \in 1..Len(proc'[q].calls) :
                   proc'[q].calls[i] \in {"verifyToken", "findById"}
             /\ (proc[q].pc = "findById" /\ proc'[q].fault = ""
                   /\ proc[q].payload.type = "access") =>
                   \A p \in Procs \ {q} :
                      (proc[p].flow = "validate" /\ proc[p].pc = "done"
                          /\ proc[p].req = proc[q].req
                          /\ proc[p].result.isValid) =>
                         /\ proc'[q].result.isValid
                         /\ proc'[q].result.payload = proc[p].result.payload]_vars

\* C13 witness: two validations of the same access token both answered
\* valid with the same payload, the store being as the login left it.
C13_SameAnswerTwice ==
    \E p, q \in Procs :
        /\ p # q
        /\ proc[p].flow = "validate" /\ proc[p].pc = "done"
        /\ proc[q].flow = "validate" /\ proc[q].pc = "done"
        /\ proc[p].req = proc[q].req
        /\ proc[p].req.token.kind = "jwt" /\ proc[p].req.token.type = "access"
        /\ proc[p].result.isValid /\ proc[q].result.isValid
        /\ proc[p].result.payload = proc[q].result.payload
        /\ Len(users[proc[p].payload.userId].refreshTokens) = 1

\* C14: a validation with a required permission decides on the permissions
\* embedded in the token alone: a verified access token passes the permission
\* check exactly when its own permissions include the one required, and once
\* the user is found the answer is valid whatever permissions the user
\* record holds by then.
C14_PermissionSnapshot ==
    [][\A p \in Procs :
          (proc'[p].flow = "validate" /\ proc'[p] # proc[p]) =>
             LET tok == proc'[p].req.token
                 perm == proc'[p].req.requiredPermission
                 has == \E i \in 1..Len(tok.permissions) : tok.permissions[i] = perm
             IN  /\ (proc[p].pc # "findById" /\ perm # ""
                       /\ VerifyToken(tok, now).ok /\ tok.type = "access") =>
                       /\ has <=> proc'[p].pc = "findById"
                       /\ ~has => proc'[p].result =
                             [isValid |-> FALSE, error |-> ErrPermissionRequired(perm)]
                 /\ (proc[p].pc = "findById" /\ proc'[p].fault = ""
                       /\ tok.type = "access") =>
                       /\ proc'[p].result.isValid
                       /\ proc'[p].result.payload.permissions = tok.permissions]_vars

\* C14 witness: the user's record holds create:posts and no longer read:posts;
\* an access token issued before the change was found valid for read:posts
\* and was refused for create:posts.
C14_OldTokenOldPermissions ==
    \E p, q \in Procs :
        /\ proc[p].flow = "validate" /\ proc[p].pc = "done"
        /\ proc[q].flow = "validate" /\ proc[q].pc = "done"
        /\ proc[p].req.token = proc[q].req.token
        /\ users[proc[p].req.token.userId].permissions = <<"create:posts">>
        /\ proc[p].req.requiredPermission = "read:posts"
        /\ proc[p].result.isValid
        /\ proc[p].user.permissions = <<"create:posts">>
        /\ proc[q].req.requiredPermission = "create:posts"
        /\ proc[q].result =
              [isValid |-> FALSE, error |-> ErrPermissionRequired("create:posts")]

\* C15: a login or refresh keeps the user as its own lookup read it, and the
\* access and refresh tokens it generates and returns embed the permissions
\* of that read.
C15_TokensEmbedReadPermissions ==
    [][\A p \in Procs :
          (proc'[p].flow \in {"login", "refresh"} /\ proc'[p] # proc[p]) =>
             /\ (proc[p].pc \in {"findByEmail", "findById"}
                   /\ proc'[p].user.id # "none") =>
                   proc'[p].user.permissions = users[proc'[p].user.id].permissions
             /\ (proc[p].pc # "done" /\ proc[p].user.id # "none") =>
                   proc'[p].user = proc[p].user
             /\ proc'[p].accessToken # NoToken =>
                   /\ proc'[p].accessToken.permissions = proc'[p].user.permissions
                   /\ proc'[p].refreshToken.permissions = proc'[p].user.permissions
             /\ (proc'[p].pc = "done" /\ proc'[p].result.status = "ok") =>
                   /\ proc'[p].result.value.accessToken = proc'[p].accessToken
                   /\ proc'[p].result.value.refreshToken = proc'[p].refreshToken
                   /\ proc'[p].result.value.user.permissions =
                         proc'[p].user.permissions]_vars

\* C15 witness: a refresh presenting a token issued before a permission
\* change returned tokens carrying the changed permissions.
C15_RefreshCarriesChange ==
    \E p \in Procs :
        /\ Succeeded(p, "refresh")
        /\ proc[p].req.token.permissions = <<"read:posts">>
        /\ proc[p].result.value.accessToken.permissions = <<"create:posts">>
        /\ proc[p].result.value.refreshToken.permissions = <<"create:posts">>

\* C16: when a login succeeds, the access token and the refresh token it
\* returns verify (at their issue time, and now unless expired meanwhile) and
\* decode to the id, email and permissions of the stored record of the user
\* whose email was given, with type access and refresh respectively.
C16_LoginTokensRoundTrip ==
    [][\A p \in Procs :
          (proc'[p].flow = "login" /\ proc'[p] # proc[p]
              /\ proc'[p].pc = "done" /\ proc'[p].result.status = "ok") =>
             LET resp == proc'[p].result.value
                 rec == users'[resp.user.id]
                 Decodes(tok, type) ==
                    LET v == VerifyToken(tok, tok.iat * 1000) IN
                    /\ v.ok
                    /\ NowSeconds(now) < tok.exp => VerifyToken(tok, now) = v
                    /\ v.payload.userId = rec.id
                    /\ v.payload.email = rec.email
                    /\ v.payload.permissions = rec.permissions
                    /\ v.payload.type = type
             IN  /\ rec.email = ToLowerCase(proc'[p].req.email)
                 /\ Decodes(resp.accessToken, "access")
                 /\ Decodes(resp.refreshToken, "refresh")]_vars

\* C16 witness: a login with the email written in upper case succeeded, and
\* both returned tokens verify now and decode to the stored lower-case email.
C16_LoginTokensVerified ==
    \E p \in Procs :
        /\ Succeeded(p, "login")
        /\ proc[p].req.email = EmailU1Upper
        /\ VerifyToken(proc[p].result.value.accessToken, now).ok
        /\ VerifyToken(proc[p].result.value.refreshToken, now).ok
        /\ VerifyToken(proc[p].result.value.accessToken, now).payload.email = EmailU1
        /\ VerifyToken(proc[p].result.value.refreshToken, now).payload.type = "refresh"

\* C17: a request passes the middleware only with a token found valid, the
\* validation's user and payload then being attached to it, or without any
\* attachment when the middleware is optional and the header is not
\* "Bearer <token>"; a request that does not pass is answered 401.  A valid
\* token always passes, and so does a missing one on an optional route.
C17_GuardPassesOnlyValid ==
    \A p \in Procs :
        (proc[p].flow = "guard" /\ proc[p].pc = "done" /\ ~Settled(proc[p])) =>
           LET f == proc[p]
               h == f.guard.header
               bearer == /\ Len(h) = 3 /\ h[1] = Bearer /\ h[2] = Space
                         /\ h[3].kind \notin {"space", "word", ""}
               valid == bearer /\ "isValid" \in DOMAIN f.result /\ f.result.isValid
           IN  /\ f.response.next <=> (valid \/ (f.guard.optional /\ ~bearer))
               /\ (f.response.next /\ valid) =>
                     /\ f.req.token = h[3]
                     /\ f.response.user = f.result.user
                     /\ f.response.token = f.result.payload
               /\ (f.response.next /\ ~valid) =>
                     /\ f.response.user = UserView /\ f.calls = <<>>
               /\ f.response.next => f.response.status = 0
               /\ ~f.response.next => f.response.status = 401

\* C17 witness: on the optional middleware a request without a token passed
\* and a request with a refused token was answered 401.
C17_OptionalStillRefuses ==
    \E p, q \in Procs :
        /\ proc[p].flow = "guard" /\ proc[p].pc = "done"
        /\ proc[p].guard.optional /\ proc[p].response.next
        /\ proc[p].response.user = UserView
        /\ proc[q].flow = "guard" /\ proc[q].pc = "done"
        /\ proc[q].guard.optional /\ ~proc[q].response.next
        /\ proc[q].response.status = 401
        /\ proc[q].result.isValid = FALSE

\* C20: when a logout of an authenticated user whose body carries a refresh
\* token is answered 200, that token is no longer stored for the user.
C20_LogoutRemovesToken ==
    [][\A p \in Procs :
          (proc'[p].flow = "logout" /\ proc'[p] # proc[p]
              /\ proc'[p].pc = "done" /\ proc'[p].response.status = 200
              /\ proc'[p].guard.body # EmptyToken) =>
             \A i \in 1..Len(users'[proc'[p].response.user.id].refreshTokens) :
                users'[proc'[p].response.user.id].refreshTokens[i].token
                   # proc'[p].guard.body]_vars

\* C19: when a collaborator call of a login or refresh rejects or throws, the
\* flow ends throwing that very value, Error or not; a failure of the store
\* adapter ends the flow with the adapter's error; and no collaborator
\* operation is called twice by one invocation.
C19_FailuresPropagateUnchanged ==
    [][\A p \in Procs :
          (proc'[p].flow \in {"login", "refresh"} /\ proc'[p] # proc[p]) =>
             /\ proc'[p].raised # "" =>
                   /\ proc'[p].pc = "done"
                   /\ proc'[p].result =
                         [status |-> "error", error |-> proc'[p].raised]
                   /\ proc'[p].calls[Len(proc'[p].calls)] = proc'[p].fault
             /\ proc'[p].fault \in {"cleanExpiredTokens", "removeRefreshToken",
                                    "addRefreshToken"} =>
                   /\ proc'[p].pc = "done" /\ proc'[p].result.status = "error"
                   /\ proc'[p].raised = "" =>
                         proc'[p].result.error \in StorageErrors
             /\ \A i, j \in 1..Len(proc'[p].calls) :
                   i # j => proc'[p].calls[i] # proc'[p].calls[j]]_vars

\* C19 witness: a login ended with the non-Error value its password check
\* rejected with, and a refresh with the Error its token generation threw.
C19_BothPropagated ==
    \E p, q \in Procs :
        /\ Failed(p, "login") /\ proc[p].fault = "verify"
        /\ proc[p].result.error = NonErrorValue
        /\ Failed(q, "refresh") /\ proc[q].fault = "generateAccessToken"
        /\ proc[q].result.error = ErrTokenGeneration

\* C18: every answered login or refresh request has status 200, 400, 401 or
\* 500: 200 exactly when the flow succeeded; 400 when the body lacks a field
\* or the flow refused its input; 401 when the flow found no user, a wrong
\* password, an unverifiable token or no stored entry; 500 when a
\* collaborator rejected or the store adapter failed.
C18_StatusMapping ==
    \A p \in Procs :
        (proc[p].guard.handler \in {"login", "refresh"}
            /\ proc[p].response.status # 0) =>
           LET f == proc[p]
               st == f.response.status
               missing == IF f.flow = "login"
                          THEN f.req.email = <<>> \/ f.req.password = ""
                          ELSE f.req.token = EmptyToken
           IN  /\ st \in {200, 400, 401, 500}
               /\ st = 200 <=> f.result.status = "ok"
               /\ (missing \/ f.failedAt = "input") <=> st = 400
               /\ missing => f.calls = <<>>
               /\ (f.raised = ""
                     /\ f.failedAt \in {"findByEmail", "verify", "verifyToken",
                                        "findById", "check"}) <=> st = 401
               /\ (f.raised # ""
                     \/ f.failedAt \in {"cleanExpiredTokens", "removeRefreshToken",
                                        "addRefreshToken"}) <=> st = 500

\* C18 witness: a login whose password check rejected was answered 500 and a
\* refresh whose user was not found was answered 401.
C18_UnexpectedAndNotFound ==
    \E p, q \in Procs :
        /\ proc[p].guard.handler = "login" /\ proc[p].fault = "verify"
        /\ proc[p].result.error = ErrPasswordService
        /\ proc[p].response.status = 500
        /\ proc[q].guard.handler = "refresh"
        /\ proc[q].result.status = "error"
        /\ proc[q].result.error = ErrUserNotFound
        /\ proc[q].response.status = 401
\* C21: extractTokenFromHeader returns the token only for a header of the
\* exact form "Bearer", one space, a token; for every other header
\* (absent or empty, the scheme alone, another or differently-cased scheme,
\* no scheme, more than two space-separated segments) it returns null.
C21_OnlyBearerTokenExtracted ==
    \A p \in Procs :
        proc[p].flow = "extract" =>
           LET h == proc[p].guard.header
               token == SubSeq(h, 3, Len(h))
               exact == /\ Len(h) >= 3 /\ h[1] = Bearer /\ h[2] = Space
                        /\ \A i \in 3..Len(h) : h[i] # Space
           IN  /\ exact => proc[p].req.token = PartString(token)
               /\ ~exact => proc[p].req.token = NoToken

\* C22: PasswordService.verify never throws; whenever the comparison fails
\* or rejects, as on a malformed stored hash, it resolves to false.
C22_VerifyNeverThrows ==
    \A p \in Procs :
        proc[p].flow = "verify" /\ proc[p].pc = "done" =>
           /\ proc[p].result.status = "ok"
           /\ proc[p].passwordHash \in MalformedHashes =>
                 proc[p].result.value = FALSE

\* C23: a validation evaluates its checks in the order empty token, codec
\* verification, required type, required permission, user lookup, stored
\* refresh token, and answers with the error of the first check that fails.
\* A token failing the type or the permission check causes no findById, and
\* a token failing both is answered 'Token type <type> required'.
C23_ValidateCheckOrder ==
    [][\A p \in Procs :
          LET f == proc'[p]
              token == f.req.token
              type == f.req.requiredTokenType
              perm == f.req.requiredPermission
              refused(err) == /\ f.pc = "done"
                              /\ f.result = [isValid |-> FALSE, error |-> err]
              wrongType == type # "" /\ token.type # type
              lacksPerm == /\ perm # ""
                           /\ \A i \in 1..Len(token.permissions) :
                                 token.permissions[i] # perm
          IN  /\ (f.flow = "validate" /\ started' = started + 1 /\ f # proc[p]) =>
                    IF token = EmptyToken
                    THEN refused(ErrTokenRequired) /\ f.calls = <<>>
                    ELSE IF token.kind # "jwt" \/ NowSeconds(now) >= token.exp
                    THEN refused(ErrInvalidToken) /\ f.calls = <<"verifyToken">>
                    ELSE IF wrongType
                    THEN refused(ErrTokenTypeRequired(type))
                         /\ f.calls = <<"verifyToken">>
                    ELSE IF lacksPerm
                    THEN refused(ErrPermissionRequired(perm))
                         /\ f.calls = <<"verifyToken">>
                    ELSE f.pc = "findById" /\ f.calls = <<"verifyToken", "findById">>
              /\ (FindByIdStep(p, "validate") /\ f.fault = "") =>
                    /\ f.calls = <<"verifyToken", "findById">>
                    /\ ~wrongType /\ ~lacksPerm
                    /\ f.result.isValid \/ f.result.error \in
                          {ErrValidateUserNotFound, ErrRefreshNotStored}
                    /\ f.failedAt = "findById" =>
                          refused(ErrValidateUserNotFound)
                    /\ f.failedAt = "check" => refused(ErrRefreshNotStored)]_vars

\* C23 witness: a refresh token without the required permission, validated
\* with a required type of access, was answered with the type error and no
\* user lookup; an access token without the permission with the permission
\* error.
C23_TypeBeforePermission ==
    \E p, q \in Procs :
        /\ proc[p].flow = "validate" /\ proc[p].pc = "done"
        /\ proc[p].req.token.kind = "jwt" /\ proc[p].req.token.type = "refresh"
        /\ proc[p].req.requiredTokenType = "access"
        /\ proc[p].req.requiredPermission = "create:posts"
        /\ ~HasPermission(proc[p].req.token, "create:posts")
        /\ proc[p].result.error = ErrTokenTypeRequired("access")
        /\ proc[p].calls = <<"verifyToken">>
        /\ proc[q].flow = "validate" /\ proc[q].pc = "done"
        /\ proc[q].req.token.kind = "jwt" /\ proc[q].req.token.type = "access"
        /\ proc[q].result.error = ErrPermissionRequired("create:posts")
        /\ proc[q].calls = <<"verifyToken">>

\* C24: when addRefreshToken fails in a refresh, after removeRefreshToken
\* succeeded, the refresh throws and the user's stored refreshTokens hold
\* neither the token presented nor the newly issued one.
C24_FailedRotationStoresNeither ==
    [][\A p \in Procs :
          (proc[p].flow = "refresh" /\ proc[p].pc = "add"
              /\ proc'[p].pc = "done" /\ proc'[p].fault = "addRefreshToken") =>
             LET rts == users'[proc[p].user.id].refreshTokens IN
             /\ proc'[p].result = [status |-> "error", error |-> ErrAddFailed]
             /\ \A i \in 1..Len(rts) :
                   /\ rts[i].token # proc[p].req.token
                   /\ rts[i].token # proc[p].refreshToken]_vars

\* C25: the refresh token a successful login or refresh returns differs
\* from every refresh token stored for the user when it is added, and a
\* refresh never returns the token it was presented.
C25_IssuedRefreshTokenIsNew ==
    [][\A p \in Procs :
          (proc[p].flow \in {"login", "refresh"} /\ proc[p].pc = "add"
              /\ proc'[p].pc = "done" /\ proc'[p].result.status = "ok") =>
             LET rts == users[proc[p].user.id].refreshTokens
                 new == proc'[p].result.value.refreshToken
             IN  /\ \A i \in 1..Len(rts) : rts[i].token # new
                 /\ proc[p].flow = "refresh" => new # proc[p].req.token]_vars

\* C26: every entry of a user's stored refreshTokens is a refresh-type
\* token that a login or refresh issued for that same user; so a refresh,
\* which does not look at the payload type, never succeeds for a presented
\* access or admin token, and succeeds only for the user the presented
\* refresh token was issued for.
C26_StoredAreOwnRefreshTokens ==
    /\ \A u \in UserIds : \A i \in 1..Len(users[u].refreshTokens) :
          LET token == users[u].refreshTokens[i].token IN
          /\ token \in issued
          /\ token.kind = "jwt" /\ token.type = "refresh"
          /\ token.userId = u
    /\ \A p \in Procs :
          Succeeded(p, "refresh") =>
             /\ proc[p].req.token.type = "refresh"
             /\ proc[p].req.token.userId = proc[p].result.value.user.id
             /\ proc[p].result.value.refreshToken.userId = proc[p].req.token.userId

\* C26 witness: with a refresh token stored for the user, a refresh
\* presenting the user's access token and a refresh presenting an admin
\* token were both refused at the stored-token check.
C26_AccessAndAdminRefused ==
    \E p, q \in Procs :
        /\ Failed(p, "refresh") /\ proc[p].failedAt = "check"
        /\ proc[p].req.token.type = "access"
        /\ Len(users[proc[p].req.token.userId].refreshTokens) > 0
        /\ Failed(q, "refresh") /\ proc[q].failedAt = "check"
        /\ proc[q].req.token.type = "admin"

\* C27: no step of a login or refresh removes or alters a stored entry that
\* is unexpired, other than the entries of the token presented to the
\* refresh whose removal the step is, and a step changes the refreshTokens
\* of no user but the one of the flow taking it; so the sessions stored
\* before a login are still stored after it.
C27_OtherSessionsKept ==
    [][\A u \in UserIds :
          LET removed == {proc[p].req.token : p \in
                            {q \in Procs : /\ proc[q].flow = "refresh"
                                           /\ proc[q].pc = "remove"
                                           /\ proc'[q].pc # "remove"
                                           /\ proc[q].user.id = u}}
              Others(rts) == SelectSeq(rts, LAMBDA e :
                                e.expiresAt > now /\ e.token \notin removed)
          IN  /\ IsPrefix(Others(users[u].refreshTokens),
                          Others(users'[u].refreshTokens))
              /\ users'[u].refreshTokens # users[u].refreshTokens =>
                    \E p \in Procs :
                       /\ proc'[p] # proc[p]
                       /\ proc[p].flow \in {"login", "refresh"}
                       /\ proc[p].user.id = u]_vars

\* C27 witness: after a second login of the user succeeded the entry of the
\* first session is still stored next to the new one, both unexpired.
C27_TwoSessionsStored ==
    \E p \in Procs :
        /\ Succeeded(p, "login")
        /\ LET rts == users[proc[p].user.id].refreshTokens IN
           /\ Len(rts) >= 2
           /\ rts[Len(rts)].token = proc[p].result.value.refreshToken
           /\ rts[1].token # rts[Len(rts)].token
           /\ \A i \in 1..Len(rts) : rts[i].expiresAt > now

\* C28: each successful login adds exactly one entry to the user's
\* refreshTokens, and a successful refresh that interleaves with no other
\* flow replaces one entry by one: its removal takes exactly one entry away
\* and its addition puts exactly one in, so the number of unexpired entries
\* does not grow.
C28_LoginAddsRefreshReplaces ==
    [][\A p \in Procs :
          LET before == Len(users[proc[p].user.id].refreshTokens)
              after == Len(users'[proc[p].user.id].refreshTokens)
          IN  /\ (proc[p].flow \in {"login", "refresh"} /\ proc[p].pc = "add"
                    /\ proc'[p].pc = "done" /\ proc'[p].result.status = "ok") =>
                    after = before + 1
              /\ (proc[p].flow = "refresh" /\ proc[p].pc = "remove"
                    /\ proc'[p].pc = "add") =>
                    after = before - 1]_vars

\* C29: on a route guarded by requireReadAccess, requireCreateAccess or
\* requireAdminAccess a token of type refresh or admin is never let
\* through, whatever permissions it carries: the validation answers
\* isValid false without a user lookup and the middleware answers 401
\* without calling the handler.
C29_OnlyAccessTokensPass ==
    \A p \in Procs :
        (/\ proc[p].flow = "guard" /\ proc[p].pc = "done"
         /\ proc[p].req.requiredTokenType = "access"
         /\ proc[p].req.token.kind = "jwt"
         /\ proc[p].req.token.type \in {"refresh", "admin"}) =>
           /\ proc[p].result.isValid = FALSE
           /\ proc[p].failedAt \in {"type", "verifyToken"}
           /\ proc[p].failedAt = "type" =>
                 proc[p].result.error = ErrTokenTypeRequired("access")
           /\ proc[p].failedAt = "verifyToken" =>
                 proc[p].result.error = ErrInvalidToken
           /\ proc[p].calls = <<"verifyToken">>
           /\ ~proc[p].response.next
           /\ ~Settled(proc[p]) => proc[p].response.status = 401
           /\ proc[p].response.user = UserView

\* C29 witness: an admin token and a refresh token, both carrying the admin
\* permission, were answered 401 for their type on the admin route, which an
\* access token with that permission passed.
C29_AdminTokenRefused ==
    \E p, q \in Procs :
        /\ proc[p].flow = "guard" /\ proc[p].pc = "done"
        /\ proc[p].req.requiredPermission = "admin"
        /\ proc[p].req.token.kind = "jwt"
        /\ proc[p].req.token.type \in {"admin", "refresh"}
        /\ HasPermission(proc[p].req.token, "admin")
        /\ proc[p].response.status = 401
        /\ proc[p].failedAt = "type"
        /\ proc[p].result.error = ErrTokenTypeRequired("access")
        /\ proc[q].flow = "guard" /\ proc[q].pc = "done"
        /\ proc[q].req.requiredPermission = "admin"
        /\ proc[q].req.token.kind = "jwt" /\ proc[q].req.token.type = "access"
        /\ proc[q].response.next

\* C30: with the Mongoose adapter a user lookup the database fails on
\* resolves to null instead of throwing: the login then fails with 'Invalid
\* email or password' and the refresh with 'User not found', never with a
\* storage error, and both are answered 401.
C30_LookupOutageLooksLikeNoUser ==
    \A p \in Procs :
        LET f == proc[p] IN
        /\ (f.flow = "login" /\ f.fault = "findByEmail") =>
              /\ f.pc = "done" /\ f.raised = ""
              /\ f.result = [status |-> "error",
                             error |-> ErrInvalidCredentialsNoUser]
              /\ f.response.status \in {0, 401}
        /\ (f.flow = "refresh" /\ f.fault = "findById") =>
              /\ f.pc = "done" /\ f.raised = ""
              /\ f.result = [status |-> "error", error |-> ErrUserNotFound]
              /\ f.response.status \in {0, 401}

\* C30 witness: a login whose findByEmail failed in the database and a
\* refresh whose findById did were both answered 401.
C30_BothOutagesAnswered401 ==
    \E p, q \in Procs :
        /\ proc[p].flow = "login" /\ proc[p].fault = "findByEmail"
        /\ proc[p].response.status = 401
        /\ proc[q].flow = "refresh" /\ proc[q].fault = "findById"
        /\ proc[q].response.status = 401

====
